---- MODULE Spec2Model ----
(***************************************************************************)
(* Interface configuration subsystem of smc-python                         *)
(* (src/smc/core/interfaces.py): InterfaceModifier, InterfaceBuilder,      *)
(* InterfaceOptions and the Interface / PhysicalInterface hierarchy.       *)
(*                                                                         *)
(* Strings that the code splits, joins or formats (interface ids, nic ids, *)
(* engine types, names) are sequences of tokens: "2.10-3.20" is            *)
(* <<"2", ".", "10", "-", "3", ".", "20">>.  A JSON object is a record; a  *)
(* key that may be absent is either an empty sequence (name) or a missing  *)
(* element of the domain of the flags function of a sub-interface.         *)
(***************************************************************************)
EXTENDS Integers, Sequences, FiniteSets, TLC

VARIABLES engine_type, server, cache, routes, last, bld, failed

vars == <<engine_type, server, cache, routes, last, bld, failed>>

(***************************************************************************)
(* Bounds of the model.                                                    *)
(***************************************************************************)
\* sub-interfaces an engine may hold before add_* stops
MaxSubs == 4
\* sub-interfaces a builder may hold before add_*_only stops
MaxBuilderSubs == 2
\* VLAN children a builder may hold before add_vlan_only stops
MaxVlans == 2
\* top-level interfaces of an engine before add_* of a new id stops
MaxIntfs == 3

(***************************************************************************)
(* Strings as token sequences.                                             *)
(***************************************************************************)
Range(s) == {s[i] : i \in 1..Len(s)}

\* python: tok in s  (substring test, at token granularity)
Contains(s, tok) == tok \in Range(s)

RECURSIVE SplitAcc(_, _, _, _)
SplitAcc(s, sep, cur, acc) ==
    IF s = <<>> THEN Append(acc, cur)
    ELSE IF Head(s) = sep THEN SplitAcc(Tail(s), sep, <<>>, Append(acc, cur))
    ELSE SplitAcc(Tail(s), sep, Append(cur, Head(s)), acc)

\* python: s.split(sep)
Split(s, sep) == SplitAcc(s, sep, <<>>, <<>>)

RECURSIVE Join(_, _)
\* python: sep.join(parts)
Join(parts, sep) ==
    IF parts = <<>> THEN <<>>
    ELSE IF Len(parts) = 1 THEN parts[1]
    ELSE parts[1] \o <<sep>> \o Join(Tail(parts), sep)

\* python: '{}.{}'.format(a, b)
DotFormat(a, b) == a \o <<".">> \o b

\* python: parts[-1]
LastOf(parts) == parts[Len(parts)]

InSeq(x, s) == \E i \in 1..Len(s) : s[i] = x

(***************************************************************************)
(* Sub-interfaces (smc.core.sub_interfaces): a wire type tag and the JSON  *)
(* fields.  address 0 and network_value 0 stand for an absent value.       *)
(***************************************************************************)
Attrs == {"primary_mgt", "backup_mgt", "primary_heartbeat",
          "backup_heartbeat", "outgoing", "auth_request"}

InlineTypes == {"inline_interface", "inline_l2fw_interface", "inline_ips_interface"}

\* isinstance(sub, InlineInterface)
IsInline(sub) == sub.typ \in InlineTypes

\* isinstance(sub, ClusterVirtualInterface)
IsCVI(sub) == sub.typ = "cluster_virtual_interface"

\* getattr(sub, attribute) is not None
HasAttr(sub, a) == a \in DOMAIN sub.flags

\* getattr(sub, attribute), read as a truth value
AttrTrue(sub, a) == a \in DOMAIN sub.flags /\ sub.flags[a]

\* setattr(sub, attribute, value): writes the key into the sub-interface's dict
SetAttr(sub, a, v) ==
    [sub EXCEPT !.flags = [x \in (DOMAIN sub.flags) \cup {a} |->
                              IF x = a THEN v ELSE sub.flags[x]]]

AllFalse == [a \in Attrs |-> FALSE]

\* SingleNodeInterface.create(interface_id, address, network_value, nicid=..)
SingleNodeInterface_create(nicid, address, network_value) ==
    [typ |-> "single_node_interface", nicid |-> nicid, address |-> address,
     network_value |-> network_value, nodeid |-> 1, flags |-> AllFalse]

\* NodeInterface.create(interface_id, address, network_value, nodeid, nicid=..)
NodeInterface_create(nicid, address, network_value, nodeid) ==
    [typ |-> "node_interface", nicid |-> nicid, address |-> address,
     network_value |-> network_value, nodeid |-> nodeid, flags |-> AllFalse]

\* ClusterVirtualInterface.create(interface_id, address, network_value, nicid=..)
ClusterVirtualInterface_create(nicid, address, network_value) ==
    [typ |-> "cluster_virtual_interface", nicid |-> nicid, address |-> address,
     network_value |-> network_value, nodeid |-> 0,
     flags |-> [a \in {"auth_request"} |-> FALSE]]

\* InlineInterface.create / InlineL2FWInterface.create / InlineIPSInterface.create
\* (zone_ref "none" and failure_mode "none" stand for absent values)
Inline_create(typ, nicid) ==
    [typ |-> typ, nicid |-> nicid, address |-> 0, network_value |-> 0,
     nodeid |-> 0, flags |-> [a \in {} |-> FALSE],
     zone_ref |-> "none", failure_mode |-> "none"]

\* _add_vlan_to_inline(inline, vlan_id, vlan_id2): nic id 'a-b' becomes
\* 'a.vlan_id-b.vlan_id2'; vlan_id2 = NoVlan (None) stands for vlan_id
NoVlan == <<"None">>

add_vlan_to_inline(inline, vlan, vlan2) ==
    LET sides == Split(inline.nicid, "-")
        second == IF vlan2 = NoVlan THEN vlan ELSE vlan2
    IN [inline EXCEPT !.nicid = DotFormat(sides[1], vlan) \o <<"-">>
                                    \o DotFormat(sides[2], second)]

\* zone_helper(zone): the href of the zone named, None for None
Zones == {"none", "zone1", "zone2"}

zone_helper(zone) ==
    CASE zone = "zone1" -> "href_zone1"
      [] zone = "zone2" -> "href_zone2"
      [] OTHER -> "none"

\* CaptureInterface.create
CaptureInterface_create(nicid) ==
    [typ |-> "capture_interface", nicid |-> nicid, address |-> 0,
     network_value |-> 0, nodeid |-> 0, flags |-> [a \in {} |-> FALSE]]

RECURSIVE SetAll(_, _)
SetAll(sub, as) ==
    IF as = {} THEN sub
    ELSE LET a == CHOOSE x \in as : TRUE
         IN SetAll(SetAttr(sub, a, TRUE), as \ {a})

\* ipaddress.ip_address(address) in ipaddress.ip_network(network_value):
\* addresses 10n+1 .. 10n+9 lie in network n
InNetwork(address, network_value) == address \div 10 = network_value

(***************************************************************************)
(* Interface data.  A snapshot entry {typeof: data} is [typeof, data]; an  *)
(* interface data is [interface_id, interfaces, vlanInterfaces, zone_ref,  *)
(* name, link]; a VLAN child is [interface_id, interfaces, zone_ref].      *)
(* name = <<>> is an absent 'name' key; link is the href of the interface. *)
(***************************************************************************)
TunnelTypeof == "tunnel_interface"

KnownTypes == {"physical_interface", "tunnel_interface",
               "virtual_physical_interface", "physical_vlan_interface"}

\* lookup_class(typeof, Interface): the class registered under the tag, whose
\* typeof attribute is that tag; the base class Interface carries none
lookup_class(typeof) == IF typeof \in KnownTypes THEN typeof ELSE "interface"

\* PhysicalVlanInterface.create(interface_id, vlan_id, zone_ref=.., interface=..)
PhysicalVlanInterface_create(interface_id, vlan_id, zone_ref, subs) ==
    [interface_id |-> DotFormat(interface_id, vlan_id),
     interfaces |-> subs, zone_ref |-> zone_helper(zone_ref)]

\* a test that sees no VLAN on any interface
has_vlan_never(d) == FALSE

\* Interface.has_vlan
has_vlan(d) == d.vlanInterfaces # <<>>

\* Interface.has_interfaces
has_interfaces(d) == d.interfaces # <<>>

RECURSIVE VlanRefs(_, _, _)
\* the calls inner(vlan, parent=data) of Interface.sub_interfaces, VLAN by VLAN
VlanRefs(typeof, vlans, v) ==
    IF v > Len(vlans) THEN <<>>
    ELSE (IF vlans[v].interfaces # <<>>
          THEN [s \in 1..Len(vlans[v].interfaces) |-> [pv |-> FALSE, v |-> v, s |-> s]]
          ELSE IF typeof # TunnelTypeof /\ Contains(vlans[v].interface_id, ".")
               THEN <<[pv |-> TRUE, v |-> v, s |-> 0]>>
               ELSE <<>>)
         \o VlanRefs(typeof, vlans, v + 1)

\* Interface.sub_interfaces: the sub-interfaces in the order the code yields
\* them, each named by its place in the data (v = VLAN child or 0, s = index
\* in 'interfaces'); pv marks a PhysicalVlanInterface (a VLAN with no address)
sub_interfaces(typeof, d) ==
    IF d.interfaces # <<>>
    THEN [s \in 1..Len(d.interfaces) |-> [pv |-> FALSE, v |-> 0, s |-> s]]
    ELSE IF d.vlanInterfaces # <<>>
    THEN VlanRefs(typeof, d.vlanInterfaces, 1)
    ELSE IF typeof # TunnelTypeof /\ Contains(d.interface_id, ".")
    THEN <<[pv |-> TRUE, v |-> 0, s |-> 0]>>
    ELSE <<>>

\* the object a reference of sub_interfaces stands for
SubAt(d, ref) ==
    IF ref.pv THEN (IF ref.v = 0 THEN d ELSE d.vlanInterfaces[ref.v])
    ELSE IF ref.v = 0 THEN d.interfaces[ref.s]
    ELSE d.vlanInterfaces[ref.v].interfaces[ref.s]

\* a write through the wrapper of a sub-interface lands in the shared dict
PutSub(d, ref, sub) ==
    IF ref.v = 0 THEN [d EXCEPT !.interfaces[ref.s] = sub]
    ELSE [d EXCEPT !.vlanInterfaces[ref.v].interfaces[ref.s] = sub]

\* PhysicalVlanInterface.vlan_id: vlans is rebuilt on every turn of the loop
\* over the VLAN's sub-interfaces, so the last sub-interface decides
vlan_id(vlan) ==
    LET own == <<LastOf(Split(vlan.interface_id, "."))>>
        lastsub == vlan.interfaces[Len(vlan.interfaces)]
        second == LastOf(Split(LastOf(Split(lastsub.nicid, "-")), "."))
    IN IF vlan.interfaces # <<>>
       THEN (IF IsInline(lastsub) /\ ~InSeq(second, own)
             THEN Join(Append(own, second), "-")
             ELSE Join(own, "-"))
       ELSE Join(own, "-")

(***************************************************************************)
(* InterfaceModifier: the interfaces of one engine, rebuilt from the       *)
(* engine's snapshot.  An interface object is [typeof, name, href, data].  *)
(***************************************************************************)
\* extract_sub_interface(data): the first sub-interface, or None (<<>>)
extract_sub_interface(d) ==
    IF d.interfaces = <<>> THEN <<>> ELSE <<d.interfaces[1]>>

\* the name byEngine gives an interface
InterfaceName(d) ==
    LET first == extract_sub_interface(d)
    IN IF d.name # <<>> THEN d.name
       ELSE IF first # <<>> /\ IsInline(first[1])
       THEN LET nicids == Split(first[1].nicid, "-")
            IN <<"Interface">> \o nicids[1] \o <<"-", "Interface">>
               \o nicids[2] \o <<"(Inline)">>
       ELSE <<"Interface">> \o d.interface_id

\* InterfaceModifier.byEngine
byEngine(snapshot) ==
    [i \in 1..Len(snapshot) |->
        [typeof |-> lookup_class(snapshot[i].typeof),
         name   |-> InterfaceName(snapshot[i].data),
         href   |-> snapshot[i].data.link,
         data   |-> snapshot[i].data]]

\* an interface list that keys every interface as a physical interface
ModifierDataPhysical(ms) ==
    [i \in 1..Len(ms) |-> [typeof |-> "physical_interface", data |-> ms[i].data]]

\* InterfaceModifier.data: the interface list keyed by each object's typeof
ModifierData(ms) ==
    [i \in 1..Len(ms) |-> [typeof |-> ms[i].typeof, data |-> ms[i].data]]

\* a test that knows an inline pair by its first side only
SubMatchesFirstSide(intf, ref, interface_id) ==
    LET sub == SubAt(intf.data, ref)
    IN IF ref.pv
       THEN Split(sub.interface_id, ".")[1] = interface_id
       ELSE \/ (Contains(sub.nicid, "-") /\ interface_id = Split(sub.nicid, "-")[1])
            \/ (Contains(sub.nicid, ".") /\ interface_id = intf.data.interface_id)
            \/ interface_id = sub.nicid

\* the test of one sub-interface in the loop of InterfaceModifier.get
SubMatches(intf, ref, interface_id) ==
    LET sub == SubAt(intf.data, ref)
    IN IF ref.pv
       THEN Split(sub.interface_id, ".")[1] = interface_id
       ELSE \/ (Contains(sub.nicid, "-") /\ InSeq(interface_id, Split(sub.nicid, "-")))
            \/ (Contains(sub.nicid, ".") /\ interface_id = intf.data.interface_id)
            \/ interface_id = sub.nicid

RECURSIVE AnySubMatches(_, _, _, _)
AnySubMatches(intf, refs, k, interface_id) ==
    IF k > Len(refs) THEN FALSE
    ELSE IF SubMatches(intf, refs[k], interface_id) THEN TRUE
    ELSE AnySubMatches(intf, refs, k + 1, interface_id)

\* a lookup that gives up after the first interface
GetFirst(ms, i, interface_id) ==
    IF i > Len(ms) THEN 0
    ELSE LET all_subs == sub_interfaces(ms[i].typeof, ms[i].data)
         IN IF all_subs # <<>>
            THEN (IF AnySubMatches(ms[i], all_subs, 1, interface_id) THEN i ELSE 0)
            ELSE (IF ms[i].data.interface_id = interface_id THEN i ELSE 0)

RECURSIVE GetFrom(_, _, _)
\* the loop over the interfaces in InterfaceModifier.get: the index of the
\* interface returned, 0 when the loop ends and EngineCommandFailed is raised
GetFrom(ms, i, interface_id) ==
    IF i > Len(ms) THEN 0
    ELSE LET all_subs == sub_interfaces(ms[i].typeof, ms[i].data)
         IN IF all_subs # <<>>
            THEN (IF AnySubMatches(ms[i], all_subs, 1, interface_id) THEN i
                  ELSE GetFrom(ms, i + 1, interface_id))
            ELSE (IF ms[i].data.interface_id = interface_id THEN i
                  ELSE GetFrom(ms, i + 1, interface_id))

\* InterfaceModifier.get
get(ms, interface_id) == GetFrom(ms, 1, interface_id)

RECURSIVE SweepUnsetNoClear(_, _, _, _, _, _)
\* a sweep that sets the attribute on the matching sub-interfaces and leaves
\* every other sub-interface as it was
SweepUnsetNoClear(d, refs, k, interface_id, attribute, address) ==
    IF k > Len(refs) THEN d
    ELSE LET ref == refs[k]
             sub == SubAt(d, ref)
             d2 == IF ~ref.pv /\ HasAttr(sub, attribute) /\ sub.nicid = interface_id
                   THEN PutSub(d, ref, SetAttr(sub, attribute, TRUE))
                   ELSE d
         IN SweepUnsetNoClear(d2, refs, k + 1, interface_id, attribute, address)

RECURSIVE SweepUnset(_, _, _, _, _, _)
\* the inner loop of set_unset over the sub-interfaces of one interface
SweepUnset(d, refs, k, interface_id, attribute, address) ==
    IF k > Len(refs) THEN d
    ELSE LET ref == refs[k]
             sub == SubAt(d, ref)
             val == IF sub.nicid = interface_id
                    THEN (IF address # 0
                          THEN InNetwork(address, sub.network_value)
                          ELSE TRUE)
                    ELSE FALSE
             d2 == IF ~ref.pv /\ HasAttr(sub, attribute)
                   THEN PutSub(d, ref, SetAttr(sub, attribute, val))
                   ELSE d
         IN SweepUnset(d2, refs, k + 1, interface_id, attribute, address)

\* a set_unset that moves the primary heartbeat along with primary_mgt
set_unset_with_heartbeat(ms, interface_id, attribute, address) ==
    [i \in 1..Len(ms) |->
        LET refs == sub_interfaces(ms[i].typeof, ms[i].data)
            d1 == SweepUnset(ms[i].data, refs, 1, interface_id, attribute, address)
        IN [ms[i] EXCEPT !.data =
               IF attribute = "primary_mgt"
               THEN SweepUnset(d1, refs, 1, interface_id, "primary_heartbeat", address)
               ELSE d1]]

\* InterfaceModifier.set_unset
set_unset(ms, interface_id, attribute, address) ==
    [i \in 1..Len(ms) |->
        [ms[i] EXCEPT !.data =
            SweepUnset(ms[i].data, sub_interfaces(ms[i].typeof, ms[i].data), 1,
                       interface_id, attribute, address)]]

RECURSIVE SweepAuthNoClear(_, _, _, _, _, _)
\* a sweep that sets auth_request on the matching sub-interfaces and leaves
\* every other sub-interface as it was
SweepAuthNoClear(d, refs, k, cvi, interface_id, address) ==
    IF k > Len(refs) THEN d
    ELSE LET ref == refs[k]
             sub == SubAt(d, ref)
             d2 == IF ~ref.pv /\ sub.nicid = interface_id
                   THEN PutSub(d, ref, SetAttr(sub, "auth_request", TRUE))
                   ELSE d
         IN SweepAuthNoClear(d2, refs, k + 1, cvi, interface_id, address)

RECURSIVE SweepAuth(_, _, _, _, _, _)
\* the inner loops of set_auth_request over the sub-interfaces of one
\* interface; cvi tells which of the two branches the interface takes.  A
\* PhysicalVlanInterface met in the CVI branch is a wrapper built for the
\* call: the assignment lands on the wrapper, not in the data.
SweepAuth(d, refs, k, cvi, interface_id, address) ==
    IF k > Len(refs) THEN d
    ELSE LET ref == refs[k]
             sub == SubAt(d, ref)
             bound == IF address # 0 THEN sub.address = address ELSE TRUE
             val == IF sub.nicid = interface_id
                    THEN (IF cvi THEN IsCVI(sub) /\ bound ELSE bound)
                    ELSE FALSE
             d2 == IF ~ref.pv
                   THEN PutSub(d, ref, SetAttr(sub, "auth_request", val))
                   ELSE d
         IN SweepAuth(d2, refs, k + 1, cvi, interface_id, address)

\* any(isinstance(t, ClusterVirtualInterface) for t in all_subs)
AnyCVI(d, refs) ==
    \E k \in 1..Len(refs) : ~refs[k].pv /\ IsCVI(SubAt(d, refs[k]))

\* a set_auth_request that exempts no engine type
set_auth_request_everywhere(ms, etype, interface_id, address) ==
    [i \in 1..Len(ms) |->
        LET all_subs == sub_interfaces(ms[i].typeof, ms[i].data)
        IN [ms[i] EXCEPT !.data =
               SweepAuth(ms[i].data, all_subs, 1,
                         AnyCVI(ms[i].data, all_subs), interface_id, address)]]

\* InterfaceModifier.set_auth_request
set_auth_request(ms, etype, interface_id, address) ==
    IF \E w \in {"master", "layer2", "ips"} : Contains(etype, w)
    THEN ms
    ELSE [i \in 1..Len(ms) |->
            LET all_subs == sub_interfaces(ms[i].typeof, ms[i].data)
            IN [ms[i] EXCEPT !.data =
                   SweepAuth(ms[i].data, all_subs, 1,
                             AnyCVI(ms[i].data, all_subs), interface_id, address)]]

(***************************************************************************)
(* The engine: its type, the interfaces the management server holds        *)
(* (server), the engine's cached snapshot (cache: valid or deleted), its   *)
(* routing entries (routes, by name), and the last call made (last).       *)
(* failed becomes true when a request fails: the exception reaches the     *)
(* caller, and the behaviour is followed up to that point.                 *)
(***************************************************************************)
NoCache == [valid |-> FALSE, ifs |-> <<>>]

\* engine.data: the cached snapshot, fetched again when the cache was deleted
EngineData == IF cache.valid THEN cache.ifs ELSE server

NoId == <<"None">>

\* a call: the operation, its interface id, a second id (a VLAN id, the
\* auth_request interface), its address and is_mgmt arguments, how it ended,
\* the request it sent with its body, and the interface it returned
Call(op, id, arg, address, is_mgmt, outcome, request, body, ret) ==
    [op |-> op, id |-> id, arg |-> arg, address |-> address, is_mgmt |-> is_mgmt,
     outcome |-> outcome, request |-> request, body |-> body, ret |-> ret]

\* an update of the engine that deletes the cache whether or not the request
\* succeeded
dispatch_engine_always_clear(body, ok) ==
    /\ ~failed
    /\ failed' = ~ok
    /\ server' = IF ok THEN body ELSE server
    /\ cache' = NoCache

\* dispatch(self, interface, self._engine) of InterfaceOptions: the update of
\* the engine with InterfaceModifier.data, which has already written the
\* interface list into engine.data; the cache is deleted on success only
dispatch_engine(body, ok) ==
    /\ ~failed
    /\ failed' = ~ok
    /\ IF ok
       THEN server' = body /\ cache' = NoCache
       ELSE server' = server /\ cache' = [valid |-> TRUE, ifs |-> body]

Outcome(ok) == IF ok THEN "ok" ELSE "failed"

\* the interface ids a caller passes: every id and nic id the engine knows,
\* one side of each pair, and None
RECURSIVE IdsOfSubs(_)
IdsOfSubs(subs) ==
    IF subs = <<>> THEN {}
    ELSE {Head(subs).nicid} \cup IdsOfSubs(Tail(subs))

RECURSIVE IdsOfVlans(_)
IdsOfVlans(vlans) ==
    IF vlans = <<>> THEN {}
    ELSE {Head(vlans).interface_id} \cup IdsOfSubs(Head(vlans).interfaces)
         \cup IdsOfVlans(Tail(vlans))

RECURSIVE IdsOf(_)
IdsOf(snapshot) ==
    IF snapshot = <<>> THEN {}
    ELSE {Head(snapshot).data.interface_id}
         \cup IdsOfSubs(Head(snapshot).data.interfaces)
         \cup IdsOfVlans(Head(snapshot).data.vlanInterfaces)
         \cup IdsOf(Tail(snapshot))

PairSides(ids) ==
    UNION {Range(Split(id, "-")) : id \in {x \in ids : Contains(x, "-")}}

InputIds == IdsOf(EngineData) \cup PairSides(IdsOf(EngineData)) \cup {NoId}

\* the addresses a caller passes: None (0) or the first address of an interface
InputAddresses ==
    {0} \cup {EngineData[i].data.interfaces[1].address :
                 i \in {k \in 1..Len(EngineData) : EngineData[k].data.interfaces # <<>>}}

(***************************************************************************)
(* InterfaceOptions                                                        *)
(***************************************************************************)
\* "Clusters and Master NGFW Engines only" (set_primary_heartbeat,
\* set_backup_heartbeat)
HasHeartbeat == Contains(engine_type, "cluster") \/ Contains(engine_type, "master")

\* InterfaceOptions.set_primary_heartbeat
set_primary_heartbeat(interface_id, ok) ==
    LET interface == set_unset(byEngine(EngineData), interface_id, "primary_heartbeat", 0)
        body == ModifierData(interface)
    IN /\ HasHeartbeat
       /\ dispatch_engine(body, ok)
       /\ last' = Call("set_primary_heartbeat", interface_id, NoId, 0, FALSE,
                       Outcome(ok), "update", body, 0)
       /\ UNCHANGED <<engine_type, routes, bld>>

\* InterfaceOptions.set_backup_heartbeat
set_backup_heartbeat(interface_id, ok) ==
    LET interface == set_unset(byEngine(EngineData), interface_id, "backup_heartbeat", 0)
        body == ModifierData(interface)
    IN /\ HasHeartbeat
       /\ dispatch_engine(body, ok)
       /\ last' = Call("set_backup_heartbeat", interface_id, NoId, 0, FALSE,
                       Outcome(ok), "update", body, 0)
       /\ UNCHANGED <<engine_type, routes, bld>>

\* a set_primary_mgt that moves primary_mgt on every engine type
set_primary_mgt_all_types(interface_id, auth_request, address, ok) ==
    LET m0 == byEngine(EngineData)
        m1 == set_unset(m0, interface_id, "primary_mgt", address)
        m2 == set_unset(m1, interface_id, "outgoing", address)
        interface == IF auth_request # NoId
                     THEN set_auth_request(m2, engine_type, auth_request, 0)
                     ELSE set_auth_request(m2, engine_type, interface_id, address)
        body == ModifierData(interface)
    IN /\ dispatch_engine(body, ok)
       /\ last' = Call("set_primary_mgt", interface_id, auth_request, address, FALSE,
                       Outcome(ok), "update", body, 0)
       /\ UNCHANGED <<engine_type, routes, bld>>

\* InterfaceOptions.set_primary_mgt; auth_request = NoId is the default None
set_primary_mgt(interface_id, auth_request, address, ok) ==
    LET m0 == byEngine(EngineData)
        m1 == IF engine_type = <<"virtual", "_", "fw">> THEN m0
              ELSE set_unset(m0, interface_id, "primary_mgt", address)
        m2 == set_unset(m1, interface_id, "outgoing", address)
        interface == IF auth_request # NoId
                     THEN set_auth_request(m2, engine_type, auth_request, 0)
                     ELSE set_auth_request(m2, engine_type, interface_id, address)
        body == ModifierData(interface)
    IN /\ dispatch_engine(body, ok)
       /\ last' = Call("set_primary_mgt", interface_id, auth_request, address, FALSE,
                       Outcome(ok), "update", body, 0)
       /\ UNCHANGED <<engine_type, routes, bld>>

\* InterfaceOptions.set_backup_mgt
set_backup_mgt(interface_id, ok) ==
    LET interface == set_unset(byEngine(EngineData), interface_id, "backup_mgt", 0)
        body == ModifierData(interface)
    IN /\ dispatch_engine(body, ok)
       /\ last' = Call("set_backup_mgt", interface_id, NoId, 0, FALSE,
                       Outcome(ok), "update", body, 0)
       /\ UNCHANGED <<engine_type, routes, bld>>

\* InterfaceOptions.set_outgoing
set_outgoing(interface_id, ok) ==
    LET interface == set_unset(byEngine(EngineData), interface_id, "outgoing", 0)
        body == ModifierData(interface)
    IN /\ dispatch_engine(body, ok)
       /\ last' = Call("set_outgoing", interface_id, NoId, 0, FALSE,
                       Outcome(ok), "update", body, 0)
       /\ UNCHANGED <<engine_type, routes, bld>>

(***************************************************************************)
(* InterfaceBuilder: a container for the data of one interface.  A builder *)
(* is the interface data itself (builder.data is vars(builder)).           *)
(***************************************************************************)
\* InterfaceBuilder(): a builder for a physical interface not yet on the engine
InterfaceBuilder ==
    [interface_id |-> NoId, interfaces |-> <<>>, vlanInterfaces |-> <<>>,
     zone_ref |-> "none", name |-> <<>>, link |-> 0]

\* InterfaceBuilder.add_vlan_only
add_vlan_only(b, vlan) ==
    [b EXCEPT !.vlanInterfaces =
        Append(@, PhysicalVlanInterface_create(b.interface_id, vlan, "none", <<>>))]

\* InterfaceBuilder.add_cvi_only
add_cvi_only(b, address, network_value, is_mgmt) ==
    LET cvi == ClusterVirtualInterface_create(b.interface_id, address, network_value)
        cvi2 == IF is_mgmt THEN SetAttr(cvi, "auth_request", TRUE) ELSE cvi
    IN [b EXCEPT !.interfaces = Append(@, cvi2)]

\* InterfaceBuilder.add_sni_only
add_sni_only(b, address, network_value, is_mgmt) ==
    LET sni == SingleNodeInterface_create(b.interface_id, address, network_value)
        sni2 == IF is_mgmt
                THEN SetAttr(SetAttr(SetAttr(sni, "auth_request", TRUE),
                                     "outgoing", TRUE), "primary_mgt", TRUE)
                ELSE sni
    IN [b EXCEPT !.interfaces = Append(@, sni2)]

\* an add_ndi_only that marks the management NDI as add_sni_only marks its SNI
add_ndi_only_as_sni(b, address, network_value, nodeid, is_mgmt) ==
    LET ndi == NodeInterface_create(b.interface_id, address, network_value, nodeid)
        ndi2 == IF is_mgmt
                THEN SetAttr(SetAttr(SetAttr(ndi, "auth_request", TRUE),
                                     "outgoing", TRUE), "primary_mgt", TRUE)
                ELSE ndi
    IN [b EXCEPT !.interfaces = Append(@, ndi2)]

\* InterfaceBuilder.add_ndi_only
add_ndi_only(b, address, network_value, nodeid, is_mgmt) ==
    LET ndi == NodeInterface_create(b.interface_id, address, network_value, nodeid)
        ndi2 == IF is_mgmt
                THEN SetAttr(SetAttr(SetAttr(ndi, "primary_mgt", TRUE),
                                     "outgoing", TRUE), "primary_heartbeat", TRUE)
                ELSE ndi
    IN [b EXCEPT !.interfaces = Append(@, ndi2)]

RECURSIVE KeepVlans(_, _, _)
\* the loop of InterfaceBuilder.remove_vlan: the VLANs whose interface_id
\* differs from vlan_str, in their order
KeepVlans(vlanInterfaces, k, vlan_str) ==
    IF k > Len(vlanInterfaces) THEN <<>>
    ELSE (IF vlanInterfaces[k].interface_id # vlan_str
          THEN <<vlanInterfaces[k]>> ELSE <<>>)
         \o KeepVlans(vlanInterfaces, k + 1, vlan_str)

\* a remove_vlan that matches a VLAN by the interface id alone
remove_vlan_by_interface(b, vlan) ==
    [b EXCEPT !.vlanInterfaces =
        SelectSeq(@, LAMBDA v : Split(v.interface_id, ".")[1] # b.interface_id)]

\* InterfaceBuilder.remove_vlan
remove_vlan(b, vlan) ==
    [b EXCEPT !.vlanInterfaces = KeepVlans(@, 1, DotFormat(b.interface_id, vlan))]

\* add_l2_inline raises KeyError when it reads the failure mode of a first
\* sub-interface that is not of the type given: if_type(self.interfaces[0][if_type.typeof])
l2_inline_raises(b, vlan, if_type) ==
    /\ vlan # NoVlan
    /\ if_type # "inline_l2fw_interface"
    /\ b.interfaces # <<>>
    /\ b.interfaces[1].typ # if_type

\* an add_l2_inline that keeps two VLAN ids for every sub-interface type
add_l2_inline_two_vlans(b, interface_id, vlan, vlan2, zone_ref_intf1, zone_ref_intf2, if_type) ==
    LET base == Inline_create(if_type, interface_id)
        b1 == IF b.interfaces = <<>>
              THEN [b EXCEPT !.interfaces = <<[base EXCEPT !.failure_mode = "normal"]>>]
              ELSE b
        child == PhysicalVlanInterface_create(Split(interface_id, "-")[1], vlan,
                                              zone_ref_intf1, <<>>)
        inline == [base EXCEPT !.zone_ref = zone_helper(zone_ref_intf2)]
    IN IF vlan = NoVlan THEN b1
       ELSE [b1 EXCEPT !.vlanInterfaces =
                Append(@, [child EXCEPT !.interfaces =
                              <<add_vlan_to_inline(inline, vlan, vlan2)>>])]

\* an add_l2_inline that forces one VLAN id for every sub-interface type
add_l2_inline_one_vlan(b, interface_id, vlan, vlan2, zone_ref_intf1, zone_ref_intf2, if_type) ==
    add_l2_inline_two_vlans(b, interface_id, vlan, vlan, zone_ref_intf1,
                            zone_ref_intf2, if_type)

\* an add_l2_inline that tags the top-level inline sub-interface with the
\* zone also when a VLAN id is given
add_l2_inline_zone_on_top(b, interface_id, vlan, vlan2, zone_ref_intf1, zone_ref_intf2, if_type) ==
    LET b2 == add_l2_inline_two_vlans(b, interface_id, vlan,
                  IF if_type # "inline_interface" THEN vlan ELSE vlan2,
                  zone_ref_intf1, zone_ref_intf2, if_type)
    IN IF b.interfaces = <<>>
       THEN [b2 EXCEPT !.interfaces[1].zone_ref = zone_helper(zone_ref_intf2)]
       ELSE b2

\* InterfaceBuilder.add_l2_inline (failure_mode left at its default); the
\* builder is returned as it was when the call raises
add_l2_inline(b, interface_id, vlan, vlan2, zone_ref_intf1, zone_ref_intf2, if_type) ==
    LET base0 == Inline_create(if_type, interface_id)
        base1 == IF vlan = NoVlan
                 THEN [base0 EXCEPT !.zone_ref = zone_helper(zone_ref_intf2)]
                 ELSE base0
        base == IF if_type # "inline_l2fw_interface"
                THEN [base1 EXCEPT !.failure_mode = "normal"]
                ELSE base1
        b1 == IF b.interfaces = <<>> THEN [b EXCEPT !.interfaces = <<base>>] ELSE b
        child == PhysicalVlanInterface_create(Split(interface_id, "-")[1], vlan,
                                              zone_ref_intf1, <<>>)
        inline0 == [base0 EXCEPT !.zone_ref = zone_helper(zone_ref_intf2)]
        inline == IF if_type # "inline_l2fw_interface"
                  THEN [inline0 EXCEPT !.failure_mode = b1.interfaces[1].failure_mode]
                  ELSE inline0
        second == IF if_type # "inline_interface" THEN vlan ELSE vlan2
    IN IF vlan = NoVlan THEN b1
       ELSE IF l2_inline_raises(b, vlan, if_type) THEN b
       ELSE [b1 EXCEPT !.vlanInterfaces =
                Append(@, [child EXCEPT !.interfaces =
                              <<add_vlan_to_inline(inline, vlan, second)>>])]

\* a loader that never finds the interface: always a new builder and None
getBuilder_always_new(ms, interface_id) ==
    [builder |-> [InterfaceBuilder EXCEPT !.interface_id = interface_id],
     interface |-> 0]

\* InterfaceBuilder.getBuilder: the builder, and the interface found (its
\* index among the interfaces of the engine, 0 for None)
getBuilder(ms, interface_id) ==
    LET found == get(ms, interface_id)
    IN IF found = 0
       THEN [builder |-> [InterfaceBuilder EXCEPT !.interface_id = interface_id],
             interface |-> 0]
       ELSE [builder |-> ms[found].data, interface |-> found]

(***************************************************************************)
(* Requests for one interface.                                             *)
(***************************************************************************)
\* the href the server gives a created interface
NewLink(ifs) ==
    1 + CHOOSE m \in 0..(Len(ifs) + 9) :
            /\ \A i \in 1..Len(ifs) : ifs[i].data.link <= m
            /\ (m = 0 \/ \E i \in 1..Len(ifs) : ifs[i].data.link = m)

\* the interfaces the server holds after interface.update(json=body)
Updated(ifs, href, body) ==
    [i \in 1..Len(ifs) |->
        IF ifs[i].data.link = href THEN [ifs[i] EXCEPT !.data = body] ELSE ifs[i]]

\* the interfaces the server holds after prepared_request(json=body).create()
Created(ifs, typeof, body) ==
    Append(ifs, [typeof |-> typeof, data |-> [body EXCEPT !.link = NewLink(ifs)]])

\* a dispatch that leaves the engine's cache in place after the request
dispatch_keep_cache(typeof, builder, ms, interface, ok, aliased) ==
    /\ ~failed
    /\ failed' = ~ok
    /\ server' = IF ~ok THEN server
                 ELSE IF interface # 0
                 THEN Updated(server, ms[interface].href, builder)
                 ELSE Created(server, typeof, builder)
    /\ cache' = [valid |-> TRUE, ifs |-> aliased]

\* dispatch(instance, builder, interface): update the interface found, or
\* create one under the instance's collection; the cache is deleted when the
\* request succeeded.  ms are the interfaces byEngine built, interface the
\* index of the one found (0 for None), aliased the engine's cached snapshot
\* with the lists the builder appended to in place.
dispatch(typeof, builder, ms, interface, ok, aliased) ==
    /\ ~failed
    /\ failed' = ~ok
    /\ IF ok
       THEN /\ server' = IF interface # 0
                         THEN Updated(server, ms[interface].href, builder)
                         ELSE Created(server, typeof, builder)
            /\ cache' = NoCache
       ELSE /\ server' = server
            /\ cache' = [valid |-> TRUE, ifs |-> aliased]

Request(interface) == IF interface # 0 THEN "update" ELSE "create"

(***************************************************************************)
(* Operations on the interfaces of an engine.                              *)
(***************************************************************************)
\* InterfaceCollection.get: EngineCommandFailed when no interface is found
InterfaceCollection_get(interface_id) ==
    LET interface == byEngine(EngineData)
        found == get(interface, interface_id)
    IN /\ ~failed
       /\ cache' = [valid |-> TRUE, ifs |-> EngineData]
       /\ last' = Call("get", interface_id, NoId, 0, FALSE,
                       IF found = 0 THEN "not_found" ELSE "ok", "none", <<>>, found)
       /\ UNCHANGED <<engine_type, server, routes, bld, failed>>

\* InterfaceModifier.byEngine(engine).data: the interface list is written
\* back into engine.data
InterfaceModifier_data ==
    LET body == ModifierData(byEngine(EngineData))
    IN /\ ~failed
       /\ cache' = [valid |-> TRUE, ifs |-> body]
       /\ last' = Call("data", NoId, NoId, 0, FALSE, "ok", "none", body, 0)
       /\ UNCHANGED <<engine_type, server, routes, bld, failed>>

RECURSIVE CountVlanSubs(_)
CountVlanSubs(vlans) ==
    IF vlans = <<>> THEN 0
    ELSE Len(Head(vlans).interfaces) + CountVlanSubs(Tail(vlans))

RECURSIVE CountSubs(_)
\* the number of sub-interfaces in a snapshot
CountSubs(snapshot) ==
    IF snapshot = <<>> THEN 0
    ELSE Len(Head(snapshot).data.interfaces)
         + CountVlanSubs(Head(snapshot).data.vlanInterfaces)
         + CountSubs(Tail(snapshot))

\* the engine's cached snapshot after a builder loaded from the interface
\* found appended to the lists it shares with the snapshot
Aliased(interface, builder) ==
    IF interface = 0 THEN EngineData
    ELSE [EngineData EXCEPT ![interface].data.interfaces = builder.interfaces,
                            ![interface].data.vlanInterfaces = builder.vlanInterfaces]

\* PhysicalInterface.add_layer3_interface (no zone_ref, no keyword arguments)
add_layer3_interface(interface_id, address, network_value, is_mgmt, ok) ==
    LET ms == byEngine(EngineData)
        gb == getBuilder(ms, interface_id)
        builder == IF engine_type = <<"single", "_", "fw">>
                   THEN add_sni_only(gb.builder, address, network_value, is_mgmt)
                   ELSE add_ndi_only(gb.builder, address, network_value, 1, is_mgmt)
    IN /\ CountSubs(EngineData) < MaxSubs
       /\ gb.interface = 0 => Len(server) < MaxIntfs
       /\ dispatch("physical_interface", builder, ms, gb.interface, ok,
                   Aliased(gb.interface, builder))
       /\ last' = Call("add_layer3_interface", interface_id, NoId, address, is_mgmt,
                       Outcome(ok), Request(gb.interface), builder, gb.interface)
       /\ UNCHANGED <<engine_type, routes, bld>>

\* the arguments of an inline add, as last keeps them
InlineArgs(vlans, zones, if_type) ==
    [vlan_id |-> vlans[1], vlan_id2 |-> vlans[2], zone_ref_intf1 |-> zones[1],
     zone_ref_intf2 |-> zones[2], if_type |-> if_type]

\* PhysicalInterface.add_inline_interface; if_type reaches add_l2_inline
\* through the keyword arguments (add_inline_l2fw_interface,
\* add_inline_ips_interface).  A KeyError of add_l2_inline ends the call
\* before dispatch.
add_inline_interface(interface_id, vlans, zones, if_type, ok) ==
    LET ms == byEngine(EngineData)
        gb == getBuilder(ms, interface_id)
        b0 == [gb.builder EXCEPT !.interface_id = Split(interface_id, "-")[1]]
        b1 == IF vlans[1] = NoVlan
              THEN [b0 EXCEPT !.zone_ref = zone_helper(zones[1])]
              ELSE b0
        builder == add_l2_inline(b1, interface_id, vlans[1], vlans[2],
                                 zones[1], zones[2], if_type)
    IN /\ CountSubs(EngineData) + 2 <= MaxSubs
       /\ gb.interface = 0 => Len(server) < MaxIntfs
       /\ IF l2_inline_raises(b1, vlans[1], if_type)
          THEN /\ ~failed /\ ok
               /\ cache' = [valid |-> TRUE, ifs |-> EngineData]
               /\ last' = Call("add_inline_interface", interface_id,
                               InlineArgs(vlans, zones, if_type), 0, FALSE,
                               "error", "none", <<>>, gb.interface)
               /\ UNCHANGED <<server, failed>>
          ELSE /\ dispatch("physical_interface", builder, ms, gb.interface, ok,
                           Aliased(gb.interface, builder))
               /\ last' = Call("add_inline_interface", interface_id,
                               InlineArgs(vlans, zones, if_type), 0, FALSE,
                               Outcome(ok), Request(gb.interface), builder, gb.interface)
       /\ UNCHANGED <<engine_type, routes, bld>>

\* 'VLAN {}.{}'.format(interface_id, vlan_id)
VlanRouteName(interface_id, vlan) == <<"VLAN">> \o DotFormat(interface_id, vlan)

\* a test that is satisfied by any VLAN
HoldsAnyVlan(d, vlan) == d.vlanInterfaces # <<>>

\* str(vlan_id) in [v.vlan_id for v in interface.vlan_interfaces()]
HoldsVlan(d, vlan) ==
    \E v \in 1..Len(d.vlanInterfaces) : vlan_id(d.vlanInterfaces[v]) = vlan

\* the body of PhysicalInterface.remove_vlan, called on the interface object
\* self (an index among the interfaces of the engine); op and arg name the
\* call in last
RemoveVlanCall(op, arg, self, vlan, ok) ==
    LET ms == byEngine(EngineData)
        self_id == ms[self].data.interface_id
        gb == getBuilder(ms, self_id)
        builder == remove_vlan(gb.builder, vlan)
    IN /\ ~failed
       /\ ms[self].typeof # TunnelTypeof
       /\ IF gb.interface = 0
          THEN \* interface is None: AttributeError
               /\ ok
               /\ cache' = [valid |-> TRUE, ifs |-> EngineData]
               /\ last' = Call(op, self_id, arg, 0, FALSE,
                               "error", "none", <<>>, 0)
               /\ UNCHANGED <<server, routes, failed>>
          ELSE IF has_vlan(ms[gb.interface].data) /\ HoldsVlan(ms[gb.interface].data, vlan)
          THEN /\ dispatch(ms[self].typeof, builder, ms, gb.interface, ok, EngineData)
               /\ routes' = IF ok THEN routes \ {VlanRouteName(self_id, vlan)}
                            ELSE routes
               /\ last' = Call(op, self_id, arg, 0, FALSE,
                               Outcome(ok), "update", builder, gb.interface)
          ELSE /\ ok
               /\ cache' = [valid |-> TRUE, ifs |-> EngineData]
               /\ last' = Call(op, self_id, arg, 0, FALSE,
                               "ok", "none", <<>>, gb.interface)
               /\ UNCHANGED <<server, routes, failed>>
       /\ UNCHANGED <<engine_type, bld>>

\* PhysicalInterface.remove_vlan
PhysicalInterface_remove_vlan(self, vlan, ok) ==
    RemoveVlanCall("PhysicalInterface.remove_vlan", vlan, self, vlan, ok)

\* PhysicalVlanInterface.delete, called on VLAN child v of
\* self.vlan_interfaces(): self._parent.remove_vlan(self.vlan_id); last names
\* the VLAN child by its interface_id
PhysicalVlanInterface_delete(self, v, ok) ==
    LET vlan == EngineData[self].data.vlanInterfaces[v]
    IN RemoveVlanCall("PhysicalVlanInterface.delete", vlan.interface_id,
                      self, vlan_id(vlan), ok)

\* Interface.save: self.update() sends the interface's data to its href, then
\* the engine's cache is deleted; a failed update raises before that.  body
\* is self.data, aliased the cached snapshot with what was written in place.
Interface_save(self, body, ok, aliased) ==
    /\ ~failed
    /\ failed' = ~ok
    /\ IF ok
       THEN /\ server' = Updated(server, byEngine(EngineData)[self].href, body)
            /\ cache' = NoCache
       ELSE /\ server' = server
            /\ cache' = [valid |-> TRUE, ifs |-> aliased]

\* InlineInterface.vlan_id of a sub-interface: the VLAN ids of the two sides
\* of the nic id, one id when both sides carry the same
inline_vlan_id(sub) ==
    LET sides == Split(sub.nicid, "-")
        first == LastOf(Split(sides[1], "."))
        second == LastOf(Split(LastOf(sides), "."))
    IN IF second = first THEN <<first>> ELSE <<first, second>>

\* a renaming that gives both sides of a VLAN's inline sub-interface the VLAN
\* id of the first side
RenamedVlanSubs_one_vlan(subs, ids) ==
    [k \in 1..Len(subs) |->
        IF IsInline(subs[k])
        THEN LET vlans == inline_vlan_id(subs[k])
             IN [subs[k] EXCEPT !.nicid = DotFormat(ids[1], vlans[1]) \o <<"-">>
                                    \o DotFormat(ids[2], vlans[1])]
        ELSE subs[k]]

\* the loop of change_interface_id over the sub-interfaces of one VLAN
RenamedVlanSubs(subs, ids) ==
    [k \in 1..Len(subs) |->
        IF IsInline(subs[k])
        THEN LET vlans == inline_vlan_id(subs[k])
             IN [subs[k] EXCEPT !.nicid = DotFormat(ids[1], vlans[1]) \o <<"-">>
                                    \o DotFormat(ids[2], vlans[Len(vlans)])]
        ELSE subs[k]]

\* the loop of change_interface_id over self.vlan_interfaces()
RenamedVlans(vlans, ids) ==
    [v \in 1..Len(vlans) |->
        [vlans[v] EXCEPT
            !.interface_id = DotFormat(ids[1], LastOf(Split(vlans[v].interface_id, "."))),
            !.interfaces = RenamedVlanSubs(@, ids)]]

\* the loop of change_interface_id over self.interfaces
RenamedSubs(subs, ids) ==
    [k \in 1..Len(subs) |->
        IF IsInline(subs[k]) THEN [subs[k] EXCEPT !.nicid = Join(ids, "-")]
        ELSE IF subs[k].nicid # <<>> THEN [subs[k] EXCEPT !.nicid = ids[1]]
        ELSE subs[k]]

\* interface_id[1] of a single id, asked for by an inline sub-interface of a
\* VLAN: IndexError
rename_raises(d, ids) ==
    /\ Len(ids) < 2
    /\ \E v \in 1..Len(d.vlanInterfaces) :
          \E k \in 1..Len(d.vlanInterfaces[v].interfaces) :
              IsInline(d.vlanInterfaces[v].interfaces[k])

\* Interface.change_interface_id, called on the interface object self.  The
\* VLAN children are copies (PhysicalVlanInterface.__init__), the
\* sub-interfaces are the dicts of the cached snapshot.
change_interface_id(self, interface_id, ok) ==
    LET ms == byEngine(EngineData)
        d == ms[self].data
        ids == Split(interface_id, "-")
        body == [d EXCEPT !.interface_id = ids[1],
                          !.interfaces = RenamedSubs(@, ids),
                          !.vlanInterfaces = RenamedVlans(@, ids)]
        aliased == [EngineData EXCEPT
                       ![self].data.interfaces = body.interfaces,
                       ![self].data.vlanInterfaces =
                           [v \in 1..Len(d.vlanInterfaces) |->
                               [d.vlanInterfaces[v] EXCEPT
                                   !.interfaces = body.vlanInterfaces[v].interfaces]]]
    IN /\ IF rename_raises(d, ids)
          THEN /\ ~failed /\ ok
               /\ cache' = [valid |-> TRUE, ifs |-> EngineData]
               /\ last' = Call("change_interface_id", d.interface_id, interface_id,
                               0, FALSE, "error", "none", <<>>, self)
               /\ UNCHANGED <<server, failed>>
          ELSE /\ Interface_save(self, body, ok, aliased)
               /\ last' = Call("change_interface_id", d.interface_id, interface_id,
                               0, FALSE, Outcome(ok), "update", body, self)
       /\ UNCHANGED <<engine_type, routes, bld>>

\* the vlan_id of what Interface.sub_interfaces yields: of a VLAN without
\* address the PhysicalVlanInterface's, of an inline sub-interface the ids of
\* its sides, of another sub-interface the part of the nic id after the dot
\* (<<>> for None)
ref_vlan_id(d, ref) ==
    LET sub == SubAt(d, ref)
    IN IF ref.pv THEN vlan_id(sub)
       ELSE IF IsInline(sub) THEN Join(inline_vlan_id(sub), "-")
       ELSE IF Len(Split(sub.nicid, ".")) > 1 THEN Split(sub.nicid, ".")[2]
       ELSE <<>>

RECURSIVE ApplyNodes(_, _)
\* for node in nodes: if node.get('nodeid') == interface.nodeid: ...
ApplyNodes(sub, nodes) ==
    IF nodes = <<>> THEN sub
    ELSE ApplyNodes(IF Head(nodes).nodeid = sub.nodeid
                    THEN [sub EXCEPT !.address = Head(nodes).address,
                                     !.network_value = Head(nodes).network_value]
                    ELSE sub,
                    Tail(nodes))

\* isinstance(interface, NodeInterface); SingleNodeInterface derives from it
IsNodeInterface(sub) == sub.typ \in {"node_interface", "single_node_interface"}

RECURSIVE ChangeAddresses(_, _, _, _, _, _, _)
\* the loop of change_cluster_ipaddress over the selected sub-interfaces: the
\* data after it, and do_save
ChangeAddresses(acc, refs, k, cvi, cvi_network_value, nodes, vlan) ==
    IF k > Len(refs) THEN acc
    ELSE LET ref == refs[k]
             sub == SubAt(acc.d, ref)
             selected == vlan = NoVlan \/ ref_vlan_id(acc.d, ref) = vlan
             next ==
                 IF ~selected \/ ref.pv THEN acc
                 ELSE IF cvi # 0 /\ IsCVI(sub)
                 THEN [d |-> PutSub(acc.d, ref,
                                [sub EXCEPT !.address = cvi,
                                            !.network_value =
                                                IF cvi_network_value # 0
                                                THEN cvi_network_value ELSE @]),
                       do_save |-> TRUE]
                 ELSE IF nodes # <<>> /\ IsNodeInterface(sub)
                 THEN [d |-> PutSub(acc.d, ref, ApplyNodes(sub, nodes)),
                       do_save |-> acc.do_save
                                   \/ \E n \in 1..Len(nodes) : nodes[n].nodeid = sub.nodeid]
                 ELSE acc
         IN ChangeAddresses(next, refs, k + 1, cvi, cvi_network_value, nodes, vlan)

\* Interface.change_cluster_ipaddress, called on the interface object self;
\* cvi 0, cvi_network_value 0, nodes <<>> and vlan NoVlan stand for None.  The
\* network entries below the interface's routing node, which the call prunes
\* after the save, are not among the routing node names routes holds.
change_cluster_ipaddress(self, cvi, cvi_network_value, nodes, vlan, ok) ==
    LET ms == byEngine(EngineData)
        d == ms[self].data
        changed == ChangeAddresses([d |-> d, do_save |-> FALSE],
                                   sub_interfaces(ms[self].typeof, d), 1,
                                   cvi, cvi_network_value, nodes, vlan)
        arg == [cvi_network_value |-> cvi_network_value, nodes |-> nodes,
                vlan_id |-> vlan]
        aliased == [EngineData EXCEPT
                       ![self].data.interfaces = changed.d.interfaces,
                       ![self].data.vlanInterfaces = changed.d.vlanInterfaces]
    IN /\ IF has_vlan(d) /\ vlan = NoVlan
          THEN \* UpdateElementFailed
               /\ ~failed /\ ok
               /\ cache' = [valid |-> TRUE, ifs |-> EngineData]
               /\ last' = Call("change_cluster_ipaddress", d.interface_id, arg,
                               cvi, FALSE, "error", "none", <<>>, self)
               /\ UNCHANGED <<server, failed>>
          ELSE IF changed.do_save
          THEN /\ Interface_save(self, changed.d, ok, aliased)
               /\ last' = Call("change_cluster_ipaddress", d.interface_id, arg,
                               cvi, FALSE, Outcome(ok), "update", changed.d, self)
          ELSE /\ ~failed /\ ok
               /\ cache' = [valid |-> TRUE, ifs |-> EngineData]
               /\ last' = Call("change_cluster_ipaddress", d.interface_id, arg,
                               cvi, FALSE, "ok", "none", <<>>, self)
               /\ UNCHANGED <<server, failed>>
       /\ UNCHANGED <<engine_type, routes, bld>>

\* routes.name.startswith('VLAN {}.'.format(self.interface_id))
IsVlanRouteOf(name, interface_id) ==
    LET prefix == <<"VLAN">> \o interface_id \o <<".">>
    IN Len(name) >= Len(prefix) /\ SubSeq(name, 1, Len(prefix)) = prefix

\* Interface.delete, called on the interface object self: the interface is
\* deleted, then the routing nodes named after it or after its VLANs, then
\* the engine's cache; a failed delete raises before that
Interface_delete(self, ok) ==
    LET ms == byEngine(EngineData)
        d == ms[self].data
    IN /\ ~failed
       /\ failed' = ~ok
       /\ IF ok
          THEN /\ server' = SelectSeq(server, LAMBDA e : e.data.link # ms[self].href)
               /\ routes' = {r \in routes :
                                r # ms[self].name /\ ~IsVlanRouteOf(r, d.interface_id)}
               /\ cache' = NoCache
          ELSE /\ server' = server
               /\ routes' = routes
               /\ cache' = [valid |-> TRUE, ifs |-> EngineData]
       /\ last' = Call("delete", d.interface_id, NoId, 0, FALSE,
                       Outcome(ok), "delete", <<>>, self)
       /\ UNCHANGED <<engine_type, bld>>

(***************************************************************************)
(* Engines the behaviours start from, as the add_* operations build them.  *)
(***************************************************************************)
Intf(typeof, interface_id, subs, vlans, name, link) ==
    [typeof |-> typeof,
     data |-> [interface_id |-> interface_id, interfaces |-> subs,
               vlanInterfaces |-> vlans, zone_ref |-> "none",
               name |-> name, link |-> link]]

Vlan(interface_id, vid, subs) ==
    PhysicalVlanInterface_create(interface_id, vid, "none", subs)

Mgmt == {"primary_mgt", "outgoing", "auth_request"}

NodeMgmt == {"primary_mgt", "outgoing", "primary_heartbeat"}

\* single firewall: management on interface 0, VLANs 1.100 (addressed) and
\* 1.200 (no address) on interface 1
SingleFw ==
    [type |-> <<"single", "_", "fw">>,
     ifs |-> <<
       Intf("physical_interface", <<"0">>,
            <<SetAll(SingleNodeInterface_create(<<"0">>, 11, 1), Mgmt)>>, <<>>,
            <<"Interface", "0">>, 1),
       Intf("physical_interface", <<"1">>, <<>>,
            <<Vlan(<<"1">>, <<"100">>,
                   <<SingleNodeInterface_create(<<"1", ".", "100">>, 21, 2)>>),
              Vlan(<<"1">>, <<"200">>, <<>>)>>,
            <<>>, 2) >>]

\* firewall cluster: CVI and two NDIs on interface 0, NDIs only on interface 1
FwCluster ==
    [type |-> <<"fw", "_", "cluster">>,
     ifs |-> <<
       Intf("physical_interface", <<"0">>,
            <<SetAll(ClusterVirtualInterface_create(<<"0">>, 11, 1), {"auth_request"}),
              SetAll(NodeInterface_create(<<"0">>, 12, 1, 1), NodeMgmt),
              NodeInterface_create(<<"0">>, 13, 1, 2)>>, <<>>, <<>>, 1),
       Intf("physical_interface", <<"1">>,
            <<NodeInterface_create(<<"1">>, 21, 2, 1),
              NodeInterface_create(<<"1">>, 22, 2, 2)>>, <<>>, <<>>, 2) >>]

\* single firewall: two addresses on interface 0; interface 5 holds an address
\* of its own and an addressed VLAN 5.100
MultiAddressFw ==
    [type |-> <<"single", "_", "fw">>,
     ifs |-> <<
       Intf("physical_interface", <<"0">>,
            <<SetAll(SingleNodeInterface_create(<<"0">>, 11, 1), Mgmt),
              SingleNodeInterface_create(<<"0">>, 21, 2)>>, <<>>, <<>>, 1),
       Intf("physical_interface", <<"5">>,
            <<SingleNodeInterface_create(<<"5">>, 31, 3)>>,
            <<Vlan(<<"5">>, <<"100">>,
                   <<SetAll(SingleNodeInterface_create(<<"5", ".", "100">>, 41, 4),
                            {"backup_mgt"})>>)>>,
            <<>>, 2) >>]

\* virtual firewall
VirtualFw ==
    [type |-> <<"virtual", "_", "fw">>,
     ifs |-> <<
       Intf("virtual_physical_interface", <<"0">>,
            <<SetAll(SingleNodeInterface_create(<<"0">>, 11, 1),
                     {"outgoing", "auth_request"})>>, <<>>, <<>>, 1),
       Intf("virtual_physical_interface", <<"1">>,
            <<SingleNodeInterface_create(<<"1">>, 21, 2)>>, <<>>, <<>>, 2) >>]

\* master engine: management NDI on interface 0, a VLAN without address on 1
MasterEngine ==
    [type |-> <<"master", "_", "engine">>,
     ifs |-> <<
       Intf("physical_interface", <<"0">>,
            <<SetAll(NodeInterface_create(<<"0">>, 11, 1, 1), NodeMgmt)>>,
            <<>>, <<>>, 1),
       Intf("physical_interface", <<"1">>, <<>>,
            <<Vlan(<<"1">>, <<"100">>, <<>>)>>, <<>>, 2) >>]

\* layer 2 firewall: management NDI on 0, inline pair 2-3 with a VLAN whose
\* sides carry VLAN 10 and VLAN 20, a capture interface on 4
Layer2Fw ==
    [type |-> <<"single", "_", "layer2">>,
     ifs |-> <<
       Intf("physical_interface", <<"0">>,
            <<SetAll(NodeInterface_create(<<"0">>, 11, 1, 1), {"primary_mgt", "outgoing"})>>,
            <<>>, <<>>, 1),
       Intf("physical_interface", <<"2">>,
            <<Inline_create("inline_interface", <<"2", "-", "3">>)>>,
            <<Vlan(<<"2">>, <<"10">>,
                   <<Inline_create("inline_interface",
                                   <<"2", ".", "10", "-", "3", ".", "20">>)>>)>>,
            <<>>, 2),
       Intf("physical_interface", <<"4">>,
            <<CaptureInterface_create(<<"4">>)>>, <<>>, <<>>, 3) >>]

\* layer 2 firewall: management NDI on 0, inline pair 2-3 without VLAN
InlineFw ==
    [type |-> <<"single", "_", "layer2">>,
     ifs |-> <<
       Intf("physical_interface", <<"0">>,
            <<SetAll(NodeInterface_create(<<"0">>, 11, 1, 1), {"primary_mgt", "outgoing"})>>,
            <<>>, <<>>, 1),
       Intf("physical_interface", <<"2">>,
            <<[Inline_create("inline_interface", <<"2", "-", "3">>)
                  EXCEPT !.failure_mode = "normal"]>>,
            <<>>, <<>>, 2) >>]

\* firewall cluster: CVI and two NDIs on interface 0, VLAN 1.100 with a CVI
\* and an NDI on interface 1
VlanCluster ==
    [type |-> <<"fw", "_", "cluster">>,
     ifs |-> <<
       Intf("physical_interface", <<"0">>,
            <<SetAll(ClusterVirtualInterface_create(<<"0">>, 11, 1), {"auth_request"}),
              SetAll(NodeInterface_create(<<"0">>, 12, 1, 1), NodeMgmt),
              NodeInterface_create(<<"0">>, 13, 1, 2)>>, <<>>, <<>>, 1),
       Intf("physical_interface", <<"1">>, <<>>,
            <<Vlan(<<"1">>, <<"100">>,
                   <<ClusterVirtualInterface_create(<<"1", ".", "100">>, 31, 3),
                     NodeInterface_create(<<"1", ".", "100">>, 32, 3, 1)>>)>>,
            <<>>, 2) >>]

\* layer 2 firewall: management NDI on 0, inline pair 10-11 with VLAN 10.5 on
\* both sides and a VLAN whose sides carry VLAN 6 and VLAN 7
InlinePairFw ==
    [type |-> <<"single", "_", "layer2">>,
     ifs |-> <<
       Intf("physical_interface", <<"0">>,
            <<SetAll(NodeInterface_create(<<"0">>, 11, 1, 1), {"primary_mgt", "outgoing"})>>,
            <<>>, <<>>, 1),
       Intf("physical_interface", <<"10">>,
            <<Inline_create("inline_interface", <<"10", "-", "11">>)>>,
            <<Vlan(<<"10">>, <<"5">>,
                   <<Inline_create("inline_interface",
                                   <<"10", ".", "5", "-", "11", ".", "5">>)>>),
              Vlan(<<"10">>, <<"6">>,
                   <<Inline_create("inline_interface",
                                   <<"10", ".", "6", "-", "11", ".", "7">>)>>)>>,
            <<>>, 2) >>]

\* single firewall with a tunnel interface
TunnelFw ==
    [type |-> <<"single", "_", "fw">>,
     ifs |-> <<
       Intf("tunnel_interface", <<"1000">>,
            <<SingleNodeInterface_create(<<"1000">>, 91, 9)>>, <<>>,
            <<"Tunnel", "Interface", "1000">>, 1),
       Intf("physical_interface", <<"0">>,
            <<SetAll(SingleNodeInterface_create(<<"0">>, 11, 1), Mgmt)>>, <<>>,
            <<>>, 2),
       Intf("physical_interface", <<"1">>, <<>>, <<>>, <<>>, 3) >>]

\* the routing nodes of an engine: one named after each interface and one
\* for each VLAN
RoutesOf(ifs) ==
    UNION {{InterfaceName(ifs[i].data)}
           \cup {<<"VLAN">> \o ifs[i].data.vlanInterfaces[v].interface_id :
                    v \in 1..Len(ifs[i].data.vlanInterfaces)} : i \in 1..Len(ifs)}

NoCall == Call("none", NoId, NoId, 0, FALSE, "none", "none", <<>>, 0)

InitWith(engines) ==
    /\ \E e \in engines : engine_type = e.type /\ server = e.ifs
    /\ cache = NoCache
    /\ routes = RoutesOf(server)
    /\ last = NoCall
    /\ bld = InterfaceBuilder
    /\ failed = FALSE

(***************************************************************************)
(* Specification of the interface options of an engine.                    *)
(***************************************************************************)
OptionEngines == {SingleFw, FwCluster, MultiAddressFw, VirtualFw, MasterEngine, Layer2Fw}

InitOptions == InitWith(OptionEngines)

SetPrimaryHeartbeat == \E id \in InputIds, ok \in BOOLEAN : set_primary_heartbeat(id, ok)

SetBackupHeartbeat == \E id \in InputIds, ok \in BOOLEAN : set_backup_heartbeat(id, ok)

SetBackupMgt == \E id \in InputIds, ok \in BOOLEAN : set_backup_mgt(id, ok)

SetOutgoing == \E id \in InputIds, ok \in BOOLEAN : set_outgoing(id, ok)

SetPrimaryMgt ==
    \E id \in InputIds, ok \in BOOLEAN :
        \/ \E address \in InputAddresses : set_primary_mgt(id, NoId, address, ok)
        \/ \E auth \in InputIds : set_primary_mgt(id, auth, 0, ok)

NextOptions ==
    \/ SetPrimaryHeartbeat
    \/ SetBackupHeartbeat
    \/ SetPrimaryMgt
    \/ SetBackupMgt
    \/ SetOutgoing

SpecOptions == InitOptions /\ [][NextOptions]_vars

(***************************************************************************)
(* Specification of the interfaces of an engine: lookup, the layer 3 add,  *)
(* the removal of a VLAN and the rebuild of the interface list.            *)
(***************************************************************************)
IfaceEngines ==
    {SingleFw, FwCluster, MultiAddressFw, VirtualFw, MasterEngine, Layer2Fw, TunnelFw}

InitIface == InitWith(IfaceEngines)

\* an interface id no engine knows
UnknownId == <<"7">>

\* the VLAN ids a caller passes: the vlan_id of every VLAN, its own part
\* alone, and one no interface holds
InputVlans ==
    UNION {UNION {{vlan_id(EngineData[i].data.vlanInterfaces[v]),
                   LastOf(Split(EngineData[i].data.vlanInterfaces[v].interface_id, "."))} :
                     v \in 1..Len(EngineData[i].data.vlanInterfaces)} :
              i \in 1..Len(EngineData)}
    \cup {<<"999">>}

TopLevelIds == {EngineData[i].data.interface_id : i \in 1..Len(EngineData)}

Get == \E id \in InputIds \cup {UnknownId} : InterfaceCollection_get(id)

Data == InterfaceModifier_data

AddLayer3Interface ==
    \E id \in TopLevelIds \cup {UnknownId}, is_mgmt \in BOOLEAN, ok \in BOOLEAN :
        add_layer3_interface(id, 71, 7, is_mgmt, ok)

RemoveVlan ==
    \E self \in 1..Len(EngineData), vlan \in InputVlans, ok \in BOOLEAN :
        PhysicalInterface_remove_vlan(self, vlan, ok)

DeleteVlan ==
    \E self \in 1..Len(EngineData), ok \in BOOLEAN :
        \E v \in 1..Len(EngineData[self].data.vlanInterfaces) :
            PhysicalVlanInterface_delete(self, v, ok)

NextIface ==
    \/ Get
    \/ Data
    \/ RemoveVlan
    \/ DeleteVlan

SpecIface == InitIface /\ [][NextIface]_vars

(***************************************************************************)
(* Specification of the add_* operations of an engine.                     *)
(***************************************************************************)
AddEngines == {SingleFw, TunnelFw, Layer2Fw, MasterEngine, InlineFw}

InitAdd == InitWith(AddEngines)

\* the VLAN ids a caller passes for the two sides: none, one, two
InlineVlans == {<<NoVlan, NoVlan>>, <<<<"10">>, NoVlan>>, <<<<"10">>, <<"20">>>>}

\* the zones a caller passes for the two sides
InlineZones == {<<"none", "none">>, <<"zone1", "zone2">>}

\* the inline pairs a caller names: those the engine holds, and a new one
InputPairs ==
    {id \in IdsOf(EngineData) : Len(id) = 3 /\ id[2] = "-"} \cup {<<"7", "-", "8">>}

AddInlineInterface ==
    \E id \in InputPairs, vlans \in InlineVlans, zones \in InlineZones,
       if_type \in InlineTypes, ok \in BOOLEAN :
        add_inline_interface(id, vlans, zones, if_type, ok)

NextAdd ==
    \/ AddLayer3Interface
    \/ AddInlineInterface

SpecAdd == InitAdd /\ [][NextAdd]_vars

(***************************************************************************)
(* Specification of an InterfaceBuilder: a new builder for interface 1, or *)
(* one loaded from an interface with VLANs.                                *)
(***************************************************************************)
Builders ==
    {[InterfaceBuilder EXCEPT !.interface_id = <<"1">>],
     SingleFw.ifs[2].data,
     Layer2Fw.ifs[2].data}

InitBuilder ==
    /\ engine_type = SingleFw.type
    /\ server = SingleFw.ifs
    /\ cache = NoCache
    /\ routes = {}
    /\ last = NoCall
    /\ bld \in Builders
    /\ failed = FALSE

BuilderCall(op, vlan, is_mgmt) ==
    /\ last' = Call(op, bld.interface_id, vlan, 0, is_mgmt, "ok", "none", <<>>, 0)
    /\ UNCHANGED <<engine_type, server, cache, routes, failed>>

AddSniOnly ==
    \E is_mgmt \in BOOLEAN :
        /\ Len(bld.interfaces) < MaxBuilderSubs
        /\ bld' = add_sni_only(bld, 71, 7, is_mgmt)
        /\ BuilderCall("add_sni_only", NoId, is_mgmt)

AddNdiOnly ==
    \E is_mgmt \in BOOLEAN :
        /\ Len(bld.interfaces) < MaxBuilderSubs
        /\ bld' = add_ndi_only(bld, 71, 7, 1, is_mgmt)
        /\ BuilderCall("add_ndi_only", NoId, is_mgmt)

AddCviOnly ==
    \E is_mgmt \in BOOLEAN :
        /\ Len(bld.interfaces) < MaxBuilderSubs
        /\ bld' = add_cvi_only(bld, 71, 7, is_mgmt)
        /\ BuilderCall("add_cvi_only", NoId, is_mgmt)

BuilderVlans == {<<"100">>, <<"200">>, <<"10">>}

AddVlanOnly ==
    \E vlan \in BuilderVlans :
        /\ Len(bld.vlanInterfaces) < MaxVlans
        /\ bld' = add_vlan_only(bld, vlan)
        /\ BuilderCall("add_vlan_only", vlan, FALSE)

BuilderRemoveVlan ==
    \E vlan \in BuilderVlans \cup {<<"10", "-", "20">>, <<"999">>} :
        /\ bld' = remove_vlan(bld, vlan)
        /\ BuilderCall("remove_vlan", vlan, FALSE)

NextBuilder ==
    \/ AddSniOnly
    \/ AddNdiOnly
    \/ AddCviOnly
    \/ AddVlanOnly
    \/ BuilderRemoveVlan

SpecBuilder == InitBuilder /\ [][NextBuilder]_vars

(***************************************************************************)
(* Specification of InterfaceBuilder.add_l2_inline: a new builder for the  *)
(* pair 2-3, one loaded from an inline interface, one loaded from an       *)
(* interface with an address.                                              *)
(***************************************************************************)
InlineBuilders ==
    {[InterfaceBuilder EXCEPT !.interface_id = <<"2">>],
     Layer2Fw.ifs[2].data,
     SingleFw.ifs[1].data}

InitInline ==
    /\ engine_type = Layer2Fw.type
    /\ server = Layer2Fw.ifs
    /\ cache = NoCache
    /\ routes = {}
    /\ last = NoCall
    /\ bld \in InlineBuilders
    /\ failed = FALSE

AddL2Inline ==
    \E vlans \in InlineVlans, zones \in InlineZones, if_type \in InlineTypes :
        /\ vlans[1] # NoVlan => Len(bld.vlanInterfaces) < MaxVlans
        /\ bld' = add_l2_inline(bld, <<"2", "-", "3">>, vlans[1], vlans[2],
                                zones[1], zones[2], if_type)
        /\ last' = Call("add_l2_inline", <<"2", "-", "3">>,
                        InlineArgs(vlans, zones, if_type), 0, FALSE,
                        IF l2_inline_raises(bld, vlans[1], if_type) THEN "error" ELSE "ok",
                        "none", <<>>, 0)
        /\ UNCHANGED <<engine_type, server, cache, routes, failed>>

NextInline ==
    \/ AddL2Inline

SpecInline == InitInline /\ [][NextInline]_vars

(***************************************************************************)
(* Reading a request body or a snapshot in the properties.                 *)
(***************************************************************************)
(* Specification of the changes made on an interface object and saved.     *)
(***************************************************************************)
ChangeEngines == {VlanCluster, InlinePairFw, SingleFw}

InitChange == InitWith(ChangeEngines)

\* the new addresses a caller passes: no CVI, a CVI address without and with
\* its network, and the address of node 1
InputCvis == {<<0, 0>>, <<19, 0>>, <<19, 1>>}

InputNodes == {<<>>, <<[nodeid |-> 1, address |-> 18, network_value |-> 1]>>}

\* the ids a caller renames an interface to: a pair and a single id
InputNewIds == {<<"20", "-", "21">>, <<"9">>}

ChangeClusterIpaddress ==
    \E self \in 1..Len(EngineData), cvi \in InputCvis,
       nodes \in InputNodes, vlan \in {NoVlan, <<"100">>}, ok \in BOOLEAN :
        change_cluster_ipaddress(self, cvi[1], cvi[2], nodes, vlan, ok)

\* "If the interface is an Inline interface, you must provide the
\* interface_id in format '1-2'"
FitsInterface(self, id) ==
    LET d == EngineData[self].data
    IN (d.interfaces # <<>> /\ IsInline(d.interfaces[1])) => Contains(id, "-")

ChangeInterfaceId ==
    \E self \in 1..Len(EngineData), id \in InputNewIds, ok \in BOOLEAN :
        /\ FitsInterface(self, id)
        /\ change_interface_id(self, id, ok)

InterfaceDelete ==
    \E self \in 1..Len(EngineData), ok \in BOOLEAN : Interface_delete(self, ok)

NextChange ==
    \/ ChangeClusterIpaddress
    \/ ChangeInterfaceId
    \/ InterfaceDelete

SpecChange == InitChange /\ [][NextChange]_vars

(***************************************************************************)
(* Specification of every operation that sends a request, each applied to  *)
(* an engine as it was built, after reads and requests that left the       *)
(* server's interfaces as they were.                                       *)
(***************************************************************************)
RequestEngines == {MasterEngine, InlineFw, VlanCluster, SingleFw}

InitRequests == InitWith(RequestEngines)

\* the server holds the interfaces the engine was built with
Untouched == \E e \in RequestEngines : engine_type = e.type /\ server = e.ifs

NextRequests ==
    \/ Untouched /\ Get
    \/ Untouched /\ SetPrimaryHeartbeat
    \/ Untouched /\ SetBackupHeartbeat
    \/ Untouched /\ SetPrimaryMgt
    \/ Untouched /\ SetBackupMgt
    \/ Untouched /\ SetOutgoing
    \/ Untouched /\ AddLayer3Interface
    \/ Untouched /\ AddInlineInterface
    \/ Untouched /\ RemoveVlan
    \/ Untouched /\ DeleteVlan
    \/ Untouched /\ ChangeClusterIpaddress
    \/ Untouched /\ ChangeInterfaceId
    \/ Untouched /\ InterfaceDelete

SpecRequests == InitRequests /\ [][NextRequests]_vars

(***************************************************************************)
\* every sub-interface of an interface data, wherever it sits
AllRefs(d) ==
    {[pv |-> FALSE, v |-> 0, s |-> s] : s \in 1..Len(d.interfaces)}
    \cup UNION {{[pv |-> FALSE, v |-> v, s |-> s] :
                    s \in 1..Len(d.vlanInterfaces[v].interfaces)} :
                v \in 1..Len(d.vlanInterfaces)}

\* the sub-interfaces Interface.sub_interfaces yields, VLANs without address left out
YieldedRefs(e) ==
    {r \in Range(sub_interfaces(e.typeof, e.data)) : ~r.pv}

\* the places <<interface, reference>> of the sub-interfaces of a snapshot
Places(snapshot) ==
    UNION {{<<i, r>> : r \in AllRefs(snapshot[i].data)} : i \in 1..Len(snapshot)}

YieldedPlaces(snapshot) ==
    UNION {{<<i, r>> : r \in YieldedRefs(snapshot[i])} : i \in 1..Len(snapshot)}

SubOf(snapshot, pl) == SubAt(snapshot[pl[1]].data, pl[2])

Holders(snapshot, a) == {pl \in Places(snapshot) : AttrTrue(SubOf(snapshot, pl), a)}

YieldedHolders(snapshot, a) ==
    {pl \in YieldedPlaces(snapshot) : AttrTrue(SubOf(snapshot, pl), a)}

\* the calls that are one set_unset(interface_id, attribute) and a dispatch
SimpleSetters ==
    [set_primary_heartbeat |-> "primary_heartbeat",
     set_backup_heartbeat  |-> "backup_heartbeat",
     set_backup_mgt        |-> "backup_mgt",
     set_outgoing          |-> "outgoing"]

OptionOps == (DOMAIN SimpleSetters) \cup {"set_primary_mgt"}

\* the attributes the last call passed to set_unset
SweptAttrs ==
    IF last.op \in DOMAIN SimpleSetters THEN {SimpleSetters[last.op]}
    ELSE IF last.op = "set_primary_mgt"
    THEN (IF engine_type = <<"virtual", "_", "fw">> THEN {"outgoing"}
          ELSE {"primary_mgt", "outgoing"})
    ELSE {}

AddedPlace ==
    LET i == IF last.ret # 0 THEN last.ret ELSE Len(server)
    IN <<i, [pv |-> FALSE, v |-> 0, s |-> Len(server[i].data.interfaces)]>>

C3_MgmtMovesToNewInterface ==
    (/\ last.op = "add_layer3_interface" /\ last.is_mgmt /\ last.outcome = "ok"
     /\ engine_type = <<"single", "_", "fw">>) =>
        /\ SubOf(server, AddedPlace).typ = "single_node_interface"
        /\ \A a \in Mgmt : AttrTrue(SubOf(server, AddedPlace), a)
        /\ \A pl \in Places(server) \ {AddedPlace} :
              \A a \in Mgmt : ~AttrTrue(SubOf(server, pl), a)

(***************************************************************************)
(* C4 (as stated): add_sni_only, add_ndi_only and add_cvi_only with        *)
(* is_mgmt=True append a sub-interface with primary_mgt, outgoing and      *)
(* auth_request all true; with is_mgmt=False none of the three is set.     *)
(***************************************************************************)
BuilderAdds == {"add_sni_only", "add_ndi_only", "add_cvi_only"}

\* the sub-interface the last add_*_only appended to the builder
Appended == bld.interfaces[Len(bld.interfaces)]

C4_ThreeFlagsAsUnit ==
    last.op \in BuilderAdds =>
        \A a \in Mgmt : AttrTrue(Appended, a) <=> last.is_mgmt

(***************************************************************************)
(* C4 (amended): with is_mgmt=True the appended sub-interface holds        *)
(* exactly auth_request, outgoing and primary_mgt after add_sni_only,      *)
(* exactly primary_mgt, outgoing and primary_heartbeat after add_ndi_only, *)
(* and exactly auth_request after add_cvi_only; with is_mgmt=False it      *)
(* holds no role flag.                                                     *)
(***************************************************************************)
C4_FlagsByVariant ==
    last.op \in BuilderAdds =>
        {a \in Attrs : AttrTrue(Appended, a)} =
            IF ~last.is_mgmt THEN {}
            ELSE IF last.op = "add_sni_only" THEN {"auth_request", "outgoing", "primary_mgt"}
            ELSE IF last.op = "add_ndi_only" THEN {"primary_mgt", "outgoing", "primary_heartbeat"}
            ELSE {"auth_request"}

\* add_ndi_only(is_mgmt=True) appended a node interface to a builder
C4_Witness ==
    /\ last.op = "add_ndi_only" /\ last.is_mgmt
    /\ Appended.typ = "node_interface"
    /\ AttrTrue(Appended, "primary_heartbeat")

InlinePairs(snapshot) ==
    {p \in UNION {{<<i, s>> : s \in 1..Len(snapshot[i].data.interfaces)} :
                     i \in 1..Len(snapshot)} :
        /\ IsInline(snapshot[p[1]].data.interfaces[p[2]])
        /\ Contains(snapshot[p[1]].data.interfaces[p[2]].nicid, "-")}

C6_InlinePairResolves ==
    \A p \in InlinePairs(EngineData) :
        LET nicid == EngineData[p[1]].data.interfaces[p[2]].nicid
            ms == byEngine(EngineData)
        IN /\ get(ms, Split(nicid, "-")[1]) = p[1]
           /\ get(ms, Split(nicid, "-")[2]) = p[1]
           /\ get(ms, nicid) = p[1]

\* get was called with the second side of an inline pair and returned the owner
C6_Witness ==
    /\ last.op = "get" /\ last.outcome = "ok"
    /\ \E p \in InlinePairs(EngineData) :
          /\ last.id = Split(EngineData[p[1]].data.interfaces[p[2]].nicid, "-")[2]
          /\ last.ret = p[1]

(***************************************************************************)
(* C7: for every top-level interface p that owns a VLAN child 'p.v', with  *)
(* or without addresses on the VLAN, InterfaceCollection.get('p.v')        *)
(* returns p and does not raise not-found.                                 *)
(***************************************************************************)
C7_VlanIdResolves ==
    \A i \in 1..Len(EngineData) : \A v \in 1..Len(EngineData[i].data.vlanInterfaces) :
        (last.op = "get" /\ last.id = EngineData[i].data.vlanInterfaces[v].interface_id)
            => (last.outcome = "ok" /\ last.ret = i)

(***************************************************************************)
(* C8: InterfaceModifier.get raises not-found exactly when no interface of *)
(* the engine matches the id under any branch; otherwise it returns an     *)
(* interface that matches, never None; and a call that raises changes no   *)
(* interface data.                                                         *)
(***************************************************************************)
\* interface e matches the id under one of the branches of get
Matches(e, interface_id) ==
    LET all_subs == sub_interfaces(e.typeof, e.data)
    IN IF all_subs # <<>>
       THEN \E k \in 1..Len(all_subs) : SubMatches(e, all_subs[k], interface_id)
       ELSE e.data.interface_id = interface_id

C8_GetRaisesIffNoMatch ==
    [][last'.op = "get" =>
          LET ms == byEngine(EngineData)
          IN /\ (last'.outcome = "not_found")
                    <=> (\A i \in 1..Len(ms) : ~Matches(ms[i], last'.id))
             /\ last'.outcome # "not_found" =>
                    /\ last'.outcome = "ok"
                    /\ last'.ret \in 1..Len(ms)
                    /\ Matches(ms[last'.ret], last'.id)
             /\ last'.outcome = "not_found" =>
                    /\ last'.ret = 0
                    /\ server' = server
                    /\ cache'.valid /\ cache'.ifs = EngineData]_vars

\* get raised not-found for an id on an engine with interfaces
C8_Witness ==
    /\ last.op = "get" /\ last.outcome = "not_found"
    /\ last.id = UnknownId
    /\ Len(EngineData) >= 2

(***************************************************************************)
(* C9: InterfaceBuilder.remove_vlan(vlan_id), when no VLAN child has the   *)
(* compound id '{interface_id}.{vlan_id}', leaves vlanInterfaces with the  *)
(* same elements in the same order and every other field of the builder    *)
(* unchanged, and raises nothing.                                          *)
(***************************************************************************)
C9_BuilderRemoveAbsentVlan ==
    [][(/\ last'.op = "remove_vlan"
        /\ \A v \in 1..Len(bld.vlanInterfaces) :
              bld.vlanInterfaces[v].interface_id # DotFormat(bld.interface_id, last'.arg))
          => (bld' = bld /\ last'.outcome = "ok")]_vars

\* remove_vlan was called with a VLAN id no builder holds, on a builder with VLANs
C9_Witness ==
    /\ last.op = "remove_vlan" /\ last.arg = <<"999">>
    /\ Len(bld.vlanInterfaces) >= 2

(***************************************************************************)
(* C10: PhysicalInterface.remove_vlan(vlan_id) on an interface that has no *)
(* VLAN with that id dispatches no request, deletes no route, does not     *)
(* invalidate the engine cache and raises no error.                        *)
(***************************************************************************)
\* interface data d has no VLAN child the id names, by its compound id or by
\* its vlan_id
NoSuchVlan(d, vlan) ==
    \A v \in 1..Len(d.vlanInterfaces) :
        /\ d.vlanInterfaces[v].interface_id # DotFormat(d.interface_id, vlan)
        /\ vlan_id(d.vlanInterfaces[v]) # vlan

C10_RemoveAbsentVlanNoOp ==
    [][(/\ last'.op = "PhysicalInterface.remove_vlan"
        /\ \A i \in 1..Len(EngineData) :
              EngineData[i].data.interface_id = last'.id
                  => NoSuchVlan(EngineData[i].data, last'.arg))
          => /\ last'.request = "none"
             /\ last'.outcome = "ok"
             /\ routes' = routes
             /\ server' = server
             /\ cache'.valid /\ cache'.ifs = EngineData
             /\ failed' = failed]_vars

\* remove_vlan was called with an unknown VLAN id on an interface with VLANs
\* and routes, and sent nothing
C10_Witness ==
    /\ last.op = "PhysicalInterface.remove_vlan" /\ last.arg = <<"999">>
    /\ last.request = "none"
    /\ last.ret # 0 /\ has_vlan(EngineData[last.ret].data)
    /\ routes # {}

(***************************************************************************)
(* C11: for every VLAN child that vlan_interfaces() returns, inline VLANs  *)
(* with vlan_id 'v1-v2' included, its delete() dispatches an update whose  *)
(* vlanInterfaces omits exactly that VLAN and keeps every other VLAN       *)
(* child.                                                                  *)
(***************************************************************************)
\* the VLAN children of a list other than the one with the interface id
WithoutVlan(vlans, interface_id) ==
    SelectSeq(vlans, LAMBDA vlan : vlan.interface_id # interface_id)

C11_DeleteOmitsThatVlan ==
    [][last'.op = "PhysicalVlanInterface.delete" =>
          /\ last'.request = "update"
          /\ last'.body.vlanInterfaces =
                WithoutVlan(EngineData[last'.ret].data.vlanInterfaces, last'.arg)]_vars

(***************************************************************************)
(* C12 (as stated): add_l2_inline('2-3', .., vlan_id='10', vlan_id2='20')  *)
(* with if_type InlineIPSInterface appends a VLAN child whose inline       *)
(* sub-interface has nic id '2.10-3.20': the two VLAN ids are kept, one    *)
(* per side.                                                               *)
(***************************************************************************)
\* the last add_l2_inline was given a VLAN id and appended a VLAN child
InlineVlanAdded ==
    /\ last.op = "add_l2_inline" /\ last.outcome = "ok"
    /\ last.arg.vlan_id # NoVlan

\* the nic id of the inline sub-interface of the VLAN child appended last
AddedInlineNicid ==
    bld.vlanInterfaces[Len(bld.vlanInterfaces)].interfaces[1].nicid

\* 'a.v1-b.v2' for the pair 'a-b' of the last call
PairWithVlans(v1, v2) ==
    DotFormat(Split(last.id, "-")[1], v1) \o <<"-">> \o DotFormat(Split(last.id, "-")[2], v2)

C12_IpsKeepsTwoVlans ==
    (/\ InlineVlanAdded
     /\ last.arg.if_type = "inline_ips_interface"
     /\ last.arg.vlan_id2 # NoVlan)
        => AddedInlineNicid = PairWithVlans(last.arg.vlan_id, last.arg.vlan_id2)

(***************************************************************************)
(* C12 (amended): with if_type InlineIPSInterface (or InlineL2FWInterface) *)
(* vlan_id2 is forced equal to vlan_id: the call with '10' and '20'        *)
(* appends a VLAN child '2.10' whose inline nic id is '2.10-3.10'.         *)
(***************************************************************************)
C12_IpsForcesOneVlan ==
    (InlineVlanAdded /\ last.arg.if_type # "inline_interface")
        => /\ AddedInlineNicid = PairWithVlans(last.arg.vlan_id, last.arg.vlan_id)
           /\ bld.vlanInterfaces[Len(bld.vlanInterfaces)].interface_id
                 = DotFormat(Split(last.id, "-")[1], last.arg.vlan_id)

\* add_l2_inline with VLAN ids 10 and 20 and if_type InlineIPSInterface
\* appended a VLAN child
C12_Witness ==
    /\ InlineVlanAdded
    /\ last.arg.if_type = "inline_ips_interface"
    /\ last.arg.vlan_id = <<"10">> /\ last.arg.vlan_id2 = <<"20">>
    /\ AddedInlineNicid = <<"2", ".", "10", "-", "3", ".", "10">>

(***************************************************************************)
(* C13 (as stated): add_l2_inline with vlan_id='10', vlan_id2='20' and     *)
(* if_type InlineInterface forces vlan_id2 equal to vlan_id: the inline    *)
(* nic id is '2.10-3.10' for the pair '2-3'.                               *)
(***************************************************************************)
C13_InlineForcesOneVlan ==
    (InlineVlanAdded /\ last.arg.if_type = "inline_interface")
        => AddedInlineNicid = PairWithVlans(last.arg.vlan_id, last.arg.vlan_id)

(***************************************************************************)
(* C13 (amended): with if_type InlineInterface the two VLAN ids supplied   *)
(* are kept, one per side: '10' and '20' give the inline nic id            *)
(* '2.10-3.20'; when vlan_id2 is not supplied, vlan_id is used on both     *)
(* sides.                                                                  *)
(***************************************************************************)
C13_InlineKeepsTwoVlans ==
    (InlineVlanAdded /\ last.arg.if_type = "inline_interface")
        => AddedInlineNicid =
              PairWithVlans(last.arg.vlan_id,
                            IF last.arg.vlan_id2 = NoVlan THEN last.arg.vlan_id
                            ELSE last.arg.vlan_id2)

\* add_l2_inline with VLAN ids 10 and 20 and if_type InlineInterface appended
\* a VLAN child
C13_Witness ==
    /\ InlineVlanAdded
    /\ last.arg.if_type = "inline_interface"
    /\ last.arg.vlan_id = <<"10">> /\ last.arg.vlan_id2 = <<"20">>
    /\ AddedInlineNicid = <<"2", ".", "10", "-", "3", ".", "20">>

\* an inline add that reached dispatch in this step
InlineDispatched == last'.op = "add_inline_interface" /\ last'.request # "none"

\* the interface data the builder of this step was loaded from
LoadedData ==
    IF last'.ret = 0
    THEN [InterfaceBuilder EXCEPT !.interface_id = last'.id]
    ELSE EngineData[last'.ret].data

\* C14: an inline add with a VLAN id leaves the zone of the top-level interface
\* as it was, gives a newly created top-level inline sub-interface no zone, and
\* puts the first zone on the VLAN child and the second on the child's inline
\* sub-interface; an inline add without a VLAN id puts the first zone on the
\* top-level interface and the second on a newly created top-level inline
\* sub-interface
C14_ZonesFollowVlan ==
    [][InlineDispatched =>
        LET a == last'.arg
            body == last'.body
            child == body.vlanInterfaces[Len(body.vlanInterfaces)]
        IN IF a.vlan_id # NoVlan
           THEN /\ body.zone_ref = LoadedData.zone_ref
                /\ LoadedData.interfaces = <<>> =>
                       /\ Len(body.interfaces) = 1
                       /\ body.interfaces[1].zone_ref = "none"
                /\ LoadedData.interfaces # <<>> =>
                       body.interfaces = LoadedData.interfaces
                /\ Len(body.vlanInterfaces) = Len(LoadedData.vlanInterfaces) + 1
                /\ child.zone_ref = zone_helper(a.zone_ref_intf1)
                /\ child.interfaces[1].zone_ref = zone_helper(a.zone_ref_intf2)
           ELSE /\ body.zone_ref = zone_helper(a.zone_ref_intf1)
                /\ body.vlanInterfaces = LoadedData.vlanInterfaces
                /\ LoadedData.interfaces = <<>> =>
                       /\ Len(body.interfaces) = 1
                       /\ body.interfaces[1].zone_ref = zone_helper(a.zone_ref_intf2)
    ]_vars

\* a new pair 7-8 was created with VLAN 10 and zones: the zones sit on the
\* VLAN child and the server holds the interface without a zone of its own
C14_Witness ==
    /\ last.op = "add_inline_interface" /\ last.outcome = "ok"
    /\ last.request = "create"
    /\ last.arg.vlan_id = <<"10">> /\ last.arg.zone_ref_intf1 = "zone1"
    /\ last.body.zone_ref = "none"
    /\ last.body.interfaces[1].zone_ref = "none"
    /\ last.body.vlanInterfaces[1].zone_ref = "href_zone1"
    /\ \E i \in 1..Len(server) :
          /\ server[i].data.interface_id = <<"7">>
          /\ server[i].data.zone_ref = "none"

\* the add operations, which load their builder with getBuilder
AddOps == {"add_layer3_interface", "add_inline_interface"}

\* a is a prefix of b
Prefix(a, b) == Len(a) <= Len(b) /\ \A i \in 1..Len(a) : b[i] = a[i]

\* C15: an add finds no interface exactly when InterfaceModifier.get finds
\* none for the id; it then works on a builder that holds nothing of any
\* interface and dispatch sends a create, which adds one interface to the
\* server; otherwise it works on a builder that holds all the data of the
\* interface found and dispatch sends an update to that interface's href,
\* which replaces that interface and no other
C15_BuilderAndRequestFollowGet ==
    [][last'.op \in AddOps =>
        LET found == get(byEngine(EngineData), last'.id)
            body == last'.body
            sent == last'.request # "none"
        IN /\ last'.ret = found
           /\ sent => (last'.request = "create" <=> found = 0)
           /\ sent => (last'.request = "update" <=> found # 0)
           /\ (sent /\ found = 0) =>
                 /\ body.link = 0 /\ body.name = <<>>
                 /\ Len(body.interfaces) + Len(body.vlanInterfaces) <= 2
                 /\ last'.outcome = "ok" =>
                       /\ Len(server') = Len(server) + 1
                       /\ Prefix(server, server')
                       /\ server'[Len(server')].data.interfaces = body.interfaces
           /\ (sent /\ found # 0) =>
                 LET old == EngineData[found].data
                 IN /\ body.link = old.link /\ body.name = old.name
                    /\ Prefix(old.interfaces, body.interfaces)
                    /\ Prefix(old.vlanInterfaces, body.vlanInterfaces)
                    /\ last'.outcome = "ok" =>
                          /\ Len(server') = Len(server)
                          /\ \A j \in 1..Len(server) :
                                server'[j] = IF server[j].data.link = old.link
                                             THEN [server[j] EXCEPT !.data = body]
                                             ELSE server[j]
    ]_vars

\* an add on an interface the engine holds was sent as an update and the
\* server holds the body under the same href
C15_Witness ==
    /\ last.op \in AddOps /\ last.outcome = "ok"
    /\ last.request = "update" /\ last.ret # 0
    /\ server[last.ret].data = last.body
    /\ Len(last.body.interfaces) + Len(last.body.vlanInterfaces) >= 2

\* C18: change_cluster_ipaddress without a VLAN id on an interface that has
\* VLAN children raises, sends no request, and leaves the server and every
\* sub-interface of the engine's snapshot as they were
C18_AmbiguousVlanFailsFast ==
    [][(/\ last'.op = "change_cluster_ipaddress"
        /\ last'.arg.vlan_id = NoVlan
        /\ EngineData[last'.ret].data.vlanInterfaces # <<>>) =>
            /\ last'.outcome = "error"
            /\ last'.request = "none"
            /\ server' = server
            /\ cache'.valid /\ cache'.ifs = EngineData
            /\ failed' = failed
    ]_vars

\* a new CVI address and node address were passed for interface 1 of the
\* cluster, which holds VLAN 1.100, without a VLAN id: the call raised
C18_Witness ==
    /\ last.op = "change_cluster_ipaddress" /\ last.outcome = "error"
    /\ last.arg.vlan_id = NoVlan /\ last.address = 19 /\ last.arg.nodes # <<>>
    /\ last.id = <<"1">>
    /\ EngineData[last.ret].data.vlanInterfaces # <<>>
    /\ EngineData[last.ret].data.vlanInterfaces[1].interfaces[1].address = 31

\* change_interface_id('20-21') called on inline pair 10-11 that owns VLAN 10.5
RenamesPair ==
    /\ last'.op = "change_interface_id"
    /\ last'.arg = <<"20", "-", "21">>
    /\ LET d == EngineData[last'.ret].data
       IN /\ d.interface_id = <<"10">>
          /\ d.interfaces # <<>> /\ d.interfaces[1].nicid = <<"10", "-", "11">>
          /\ \E v \in 1..Len(d.vlanInterfaces) :
                d.vlanInterfaces[v].interface_id = <<"10", ".", "5">>

\* nic id '10.x-11.y' with both sides renamed: '20.x-21.y'
RenamedNicid(nicid) ==
    LET sides == Split(nicid, "-")
    IN <<"20", ".">> \o LastOf(Split(sides[1], ".")) \o <<"-", "21", ".">>
          \o LastOf(Split(sides[2], "."))

\* C19: change_interface_id('20-21') on inline pair 10-11 with VLAN 10.5 saves
\* an interface with id 20, top-level inline nic id 20-21, every VLAN child
\* 10.n renamed 20.n, and every inline nic id 10.x-11.y of a VLAN renamed
\* 20.x-21.y; after a successful save the server holds that interface
C19_PairRenamedInLockstep ==
    [][RenamesPair =>
        LET d == EngineData[last'.ret].data
            body == last'.body
        IN /\ last'.request = "update"
           /\ body.interface_id = <<"20">>
           /\ Len(body.interfaces) = Len(d.interfaces)
           /\ body.interfaces[1].nicid = <<"20", "-", "21">>
           /\ Len(body.vlanInterfaces) = Len(d.vlanInterfaces)
           /\ \A v \in 1..Len(d.vlanInterfaces) :
                 LET old == d.vlanInterfaces[v]
                     new == body.vlanInterfaces[v]
                 IN /\ new.interface_id =
                          <<"20", ".">> \o LastOf(Split(old.interface_id, "."))
                    /\ Len(new.interfaces) = Len(old.interfaces)
                    /\ \A k \in 1..Len(old.interfaces) :
                          IsInline(old.interfaces[k]) =>
                             new.interfaces[k].nicid = RenamedNicid(old.interfaces[k].nicid)
           /\ last'.outcome = "ok" => server'[last'.ret].data = body
    ]_vars

\* the pair was renamed and saved: the server holds interface 20 with VLANs
\* 20.5 (nic id 20.5-21.5) and 20.6 (nic id 20.6-21.7)
C19_Witness ==
    /\ last.op = "change_interface_id" /\ last.outcome = "ok"
    /\ last.id = <<"10">> /\ last.arg = <<"20", "-", "21">>
    /\ LET d == server[last.ret].data
       IN /\ d.interface_id = <<"20">>
          /\ d.interfaces[1].nicid = <<"20", "-", "21">>
          /\ d.vlanInterfaces[1].interface_id = <<"20", ".", "5">>
          /\ d.vlanInterfaces[1].interfaces[1].nicid = <<"20", ".", "5", "-", "21", ".", "5">>
          /\ d.vlanInterfaces[2].interfaces[1].nicid = <<"20", ".", "6", "-", "21", ".", "7">>

\* the engine is of a type whose name holds master, layer2 or ips
ExemptEngine == \E w \in {"master", "layer2", "ips"} : Contains(engine_type, w)

\* the auth_request key of every sub-interface: present or not, true or not
AuthOf(snapshot) ==
    [pl \in Places(snapshot) |->
        <<HasAttr(SubOf(snapshot, pl), "auth_request"),
          AttrTrue(SubOf(snapshot, pl), "auth_request")>>]

\* C20: on an engine of type master, layer2 or ips, set_auth_request returns
\* the interfaces as they were for every interface id and address, and the
\* body set_primary_mgt sends carries the auth_request of every sub-interface
\* unchanged
C20_AuthRequestExempt ==
    [][(last'.op = "set_primary_mgt" /\ ExemptEngine) =>
        /\ AuthOf(last'.body) = AuthOf(EngineData)
        /\ \A id \in InputIds, address \in InputAddresses :
              set_auth_request(byEngine(EngineData), engine_type, id, address)
                 = byEngine(EngineData)
    ]_vars

\* primary management was set on interface 0 of the master engine, whose
\* node interface has auth_request false: no sub-interface holds auth_request
C20_Witness ==
    /\ last.op = "set_primary_mgt" /\ last.outcome = "ok"
    /\ engine_type = <<"master", "_", "engine">>
    /\ last.id = <<"0">> /\ last.arg = NoId
    /\ Holders(server, "primary_mgt") # {}
    /\ Holders(server, "auth_request") = {}

\* the kinds of request an operation sends
RequestKinds == {"create", "update", "delete"}

\* C16: when an operation's request succeeded, the engine's cache is deleted
\* when the operation returns, and the interfaces byEngine builds next are
\* those the server holds
C16_CacheDeletedAfterSuccess ==
    [][(last'.request \in RequestKinds /\ last'.outcome = "ok") =>
        /\ cache' = NoCache
        /\ byEngine(EngineData') = byEngine(server')
    ]_vars

\* an interface was created: the cache is deleted and the next read finds
\* the new interface, the last of those the server holds
C16_Witness ==
    /\ last.op = "add_layer3_interface" /\ last.outcome = "ok"
    /\ last.request = "create"
    /\ cache = NoCache
    /\ get(byEngine(EngineData), last.id) = Len(server)
    /\ ~Untouched

\* C17: when an operation's request failed, the call ends with that failure,
\* the server holds what it held, no routing node is deleted and the engine's
\* cache is still in place; nothing is sent after it
C17_FailureLeavesServer ==
    [][/\ last'.outcome = "failed" =>
            /\ last'.request \in RequestKinds
            /\ failed'
            /\ server' = server
            /\ routes' = routes
            /\ cache'.valid
       /\ failed => UNCHANGED vars
    ]_vars

\* the update of set_primary_mgt failed: the server still holds the
\* management flag where it was and the cache is in place
C17_Witness ==
    /\ last.op = "set_primary_mgt" /\ last.outcome = "failed"
    /\ failed /\ cache.valid
    /\ Holders(last.body, "primary_mgt") # Holders(server, "primary_mgt")
    /\ Untouched

\* some sub-interface of the snapshot is a ClusterVirtualInterface
HoldsCVI(snapshot) == \E pl \in Places(snapshot) : IsCVI(SubOf(snapshot, pl))

\* C21: in the body set_primary_mgt dispatches on an engine that is not of
\* type master, layer2 or ips, when any sub-interface of the engine is a
\* ClusterVirtualInterface, every sub-interface that holds auth_request is a
\* ClusterVirtualInterface
C21_OnlyCviHoldsAuthRequest ==
    (last.op = "set_primary_mgt" /\ ~ExemptEngine /\ HoldsCVI(last.body)) =>
        \A pl \in Holders(last.body, "auth_request") : IsCVI(SubOf(last.body, pl))

\* the three flags set_primary_mgt deals with
MgmtAttrs == {"primary_mgt", "outgoing", "auth_request"}

\* those of them it moves on the engine at hand
MovedAttrs ==
    IF engine_type = <<"virtual", "_", "fw">> THEN {"outgoing", "auth_request"}
    ELSE IF ExemptEngine THEN {"primary_mgt", "outgoing"}
    ELSE MgmtAttrs

\* the key a of every sub-interface: present or not, true or not
FlagOf(snapshot, a) ==
    [pl \in Places(snapshot) |->
        <<HasAttr(SubOf(snapshot, pl), a), AttrTrue(SubOf(snapshot, pl), a)>>]

\* the sub-interfaces of the target that can take flag a: those with the
\* target's nic id that carry the attribute; for auth_request those with the
\* nic id, the ClusterVirtualInterfaces only on an interface that has one
TakersOf(snapshot, a, target) ==
    {pl \in YieldedPlaces(snapshot) :
        LET sub == SubOf(snapshot, pl)
        IN /\ sub.nicid = target
           /\ IF a = "auth_request"
              THEN (\E q \in YieldedPlaces(snapshot) :
                        q[1] = pl[1] /\ IsCVI(SubOf(snapshot, q))) => IsCVI(sub)
              ELSE HasAttr(sub, a)}

OtherAttrs == {"primary_heartbeat", "backup_heartbeat", "backup_mgt"}

\* C25: in the body set_primary_mgt dispatches, primary_heartbeat,
\* backup_heartbeat and backup_mgt of every sub-interface of the engine are
\* what they were before the call
C25_MgmtLeavesOtherFlags ==
    [][last'.op = "set_primary_mgt" =>
        \A a \in OtherAttrs : FlagOf(last'.body, a) = FlagOf(EngineData, a)
    ]_vars

\* on the cluster, primary management moved to interface 1 and the primary
\* heartbeat stayed on interface 0
C25_Witness ==
    /\ last.op = "set_primary_mgt" /\ last.outcome = "ok"
    /\ engine_type = <<"fw", "_", "cluster">>
    /\ last.id = <<"1">>
    /\ Holders(server, "primary_mgt") # {}
    /\ \A pl \in Holders(server, "primary_mgt") : SubOf(server, pl).nicid = <<"1">>
    /\ Holders(server, "primary_heartbeat") # {}
    /\ \A pl \in Holders(server, "primary_heartbeat") : SubOf(server, pl).nicid = <<"0">>

\* C28: when the update request of a set_* operation of InterfaceOptions
\* fails, the interface data the engine reads afterwards is the data it read
\* before the call
C28_FailedSetKeepsSnapshot ==
    [][(last'.op \in OptionOps /\ last'.outcome = "failed") =>
        EngineData' = EngineData
    ]_vars

\* the nic ids and VLAN ids a sub-interface of the snapshot answers to
MatchedIds(snapshot) ==
    {id \in IdsOf(snapshot) \cup PairSides(IdsOf(snapshot)) \cup {NoId} :
        \E i \in 1..Len(snapshot) :
            LET intf == byEngine(snapshot)[i]
            IN AnySubMatches(intf, sub_interfaces(intf.typeof, intf.data), 1, id)}

\* C29: set_primary_mgt, set_outgoing and set_primary_heartbeat called with
\* an interface id no sub-interface answers to never dispatch a body that
\* has lost the last holder of a flag the engine had a holder of
C29_UnmatchedIdKeepsHolder ==
    [][(/\ last'.op \in {"set_primary_mgt", "set_outgoing", "set_primary_heartbeat"}
        /\ last'.address = 0
        /\ last'.id \notin MatchedIds(EngineData)) =>
        \A a \in {"primary_mgt", "outgoing", "primary_heartbeat"} :
            Holders(EngineData, a) # {} => Holders(last'.body, a) # {}
    ]_vars

\* every sub-interface with an address inside a VLAN child of the interface
\* data d carries the VLAN child's compound id as its nicid
VlanNicidsAgree(d) ==
    \A v \in 1..Len(d.vlanInterfaces) :
        \A k \in 1..Len(d.vlanInterfaces[v].interfaces) :
            LET sub == d.vlanInterfaces[v].interfaces[k]
            IN ~IsInline(sub) => sub.nicid = d.vlanInterfaces[v].interface_id

\* C27: in the interface a rename dispatches, each sub-interface with an
\* address inside a VLAN child has the VLAN child's compound interface_id as
\* its nicid
C27_VlanNicidsFollowRename ==
    (last.op = "change_interface_id" /\ last.request = "update") =>
        VlanNicidsAgree(last.body)

\* ---------------------------------------------------------------------
\* VLAN operations of InterfaceBuilder and PhysicalInterface
\* ---------------------------------------------------------------------

\* PhysicalInterface.add_capture_interface: a new InterfaceBuilder, never
\* getBuilder, InterfaceBuilder.add_capture on it, and dispatch without an
\* interface
add_capture_interface(interface_id, zone_ref, ok) ==
    LET b0 == [InterfaceBuilder EXCEPT
                  !.interface_id = interface_id,
                  !.interfaces = Append(@, CaptureInterface_create(interface_id))]
        builder == IF zone_ref # "none"
                   THEN [b0 EXCEPT !.zone_ref = zone_helper(zone_ref)] ELSE b0
    IN /\ Len(server) < MaxIntfs
       /\ dispatch("physical_interface", builder, byEngine(EngineData), 0, ok,
                   EngineData)
       /\ last' = Call("add_capture_interface", interface_id, NoId, 0, FALSE,
                       Outcome(ok), Request(0), builder, 0)
       /\ UNCHANGED <<engine_type, routes, bld>>

\* InterfaceBuilder.add_ndi_to_vlan; the branch that creates the VLAN calls
\* cls.create without nodeid, which is then the default of create, 1
add_ndi_to_vlan(b, address, network_value, vlan, nodeid, zone_ref) ==
    LET vlan_str == DotFormat(b.interface_id, vlan)
        hits == {v \in 1..Len(b.vlanInterfaces) :
                    b.vlanInterfaces[v].interface_id = vlan_str}
    IN IF hits # {}
       THEN [b EXCEPT !.vlanInterfaces[CHOOSE v \in hits : \A w \in hits : v <= w]
                          .interfaces =
                Append(@, NodeInterface_create(vlan_str, address, network_value,
                                               nodeid))]
       ELSE [b EXCEPT !.vlanInterfaces =
                Append(@, PhysicalVlanInterface_create(b.interface_id, vlan, zone_ref,
                          <<NodeInterface_create(vlan_str, address, network_value, 1)>>))]

\* InterfaceBuilder.add_cvi_to_vlan
add_cvi_to_vlan(b, address, network_value, vlan) ==
    [b EXCEPT !.vlanInterfaces =
        Append(@, PhysicalVlanInterface_create(b.interface_id, vlan, "none",
                  <<ClusterVirtualInterface_create(DotFormat(b.interface_id, vlan),
                                                   address, network_value)>>))]

\* the loop 'for node in nodes: builder.add_ndi_to_vlan(**node)'
RECURSIVE add_nodes_to_vlan(_, _, _)
add_nodes_to_vlan(b, nodes, vlan) ==
    IF nodes = <<>> THEN b
    ELSE add_nodes_to_vlan(
             add_ndi_to_vlan(b, Head(nodes).address, Head(nodes).network_value,
                             vlan, Head(nodes).nodeid, "none"),
             Tail(nodes), vlan)

\* PhysicalInterface.add_ipaddress_and_vlan_to_cluster; cluster_virtual = 0
\* stands for no cluster_virtual
add_ipaddress_and_vlan_to_cluster(interface_id, vlan, nodes, cluster_virtual, cluster_mask, zone_ref, ok) ==
    LET ms == byEngine(EngineData)
        gb == getBuilder(ms, interface_id)
        b0 == [gb.builder EXCEPT !.zone_ref = zone_helper(zone_ref)]
        b1 == IF cluster_virtual # 0 /\ cluster_mask # 0
              THEN add_cvi_to_vlan(b0, cluster_virtual, cluster_mask, vlan) ELSE b0
        builder == add_nodes_to_vlan(b1, nodes, vlan)
    IN /\ Len(builder.vlanInterfaces) <= MaxVlans
       /\ CountVlanSubs(builder.vlanInterfaces) <= MaxSubs
       /\ gb.interface = 0 => Len(server) < MaxIntfs
       /\ dispatch("physical_interface", builder, ms, gb.interface, ok,
                   Aliased(gb.interface, builder))
       /\ last' = Call("add_ipaddress_and_vlan_to_cluster", interface_id, vlan, 0,
                       FALSE, Outcome(ok), Request(gb.interface), builder,
                       gb.interface)
       /\ UNCHANGED <<engine_type, routes, bld>>

\* the sub-interfaces of a VLAN child after 'for interface in vlan.interfaces'
\* of change_vlan_id
RevlanSubs(vlan, original, new_vlan, new_ifid) ==
    [k \in 1..Len(vlan.interfaces) |->
        LET sub == vlan.interfaces[k]
            itfs == [i \in 1..Len(Split(sub.nicid, "-")) |->
                        Split(Split(sub.nicid, "-")[i], ".")[1]]
        IN IF sub.nicid = vlan.interface_id
           THEN [sub EXCEPT !.nicid = new_ifid]
           ELSE IF IsInline(sub) /\ Join(inline_vlan_id(sub), "-") = original
           THEN [sub EXCEPT !.nicid = DotFormat(itfs[1], new_vlan[1]) \o <<"-">>
                                \o DotFormat(LastOf(itfs), LastOf(new_vlan))]
           ELSE sub]

\* a change_vlan_id that renames every VLAN child of the interface
change_vlan_id_every_vlan(self, original, new, ok) ==
    LET d == byEngine(EngineData)[self].data
        new_vlan == Split(new, "-")
        new_ifid == DotFormat(d.interface_id, new_vlan[1])
        vlanInterfaces ==
            [v \in 1..Len(d.vlanInterfaces) |->
                [d.vlanInterfaces[v] EXCEPT
                    !.interface_id = new_ifid,
                    !.interfaces = RevlanSubs(d.vlanInterfaces[v], original,
                                              new_vlan, new_ifid)]]
        body == [d EXCEPT !.vlanInterfaces = vlanInterfaces]
    IN /\ Interface_save(self, body, ok, EngineData)
       /\ last' = Call("change_vlan_id", original, new, 0, FALSE, Outcome(ok),
                       "update", body, self)
       /\ UNCHANGED <<engine_type, routes, bld>>

\* PhysicalInterface.change_vlan_id
change_vlan_id(self, original, new, ok) ==
    LET d == byEngine(EngineData)[self].data
        new_vlan == Split(new, "-")
        new_ifid == DotFormat(d.interface_id, new_vlan[1])
        vlanInterfaces ==
            [v \in 1..Len(d.vlanInterfaces) |->
                IF vlan_id(d.vlanInterfaces[v]) = original
                THEN [d.vlanInterfaces[v] EXCEPT
                         !.interface_id = new_ifid,
                         !.interfaces = RevlanSubs(d.vlanInterfaces[v], original,
                                                   new_vlan, new_ifid)]
                ELSE d.vlanInterfaces[v]]
        body == [d EXCEPT !.vlanInterfaces = vlanInterfaces]
        aliased == [EngineData EXCEPT
                       ![self].data.vlanInterfaces =
                           [v \in 1..Len(d.vlanInterfaces) |->
                               [d.vlanInterfaces[v] EXCEPT
                                   !.interfaces = vlanInterfaces[v].interfaces]]]
    IN /\ Interface_save(self, body, ok, aliased)
       /\ last' = Call("change_vlan_id", original, new, 0, FALSE, Outcome(ok),
                       "update", body, self)
       /\ UNCHANGED <<engine_type, routes, bld>>

InitVlan == InitWith({VlanCluster, InlinePairFw})

\* the add operations and the rename of the interface start from the built
\* engine; change_vlan_id also follows a rename or another change_vlan_id
NextVlan ==
    \/ \E id \in {<<"1">>, <<"7">>}, zone \in {"none", "zone1"}, ok \in BOOLEAN :
           /\ last.op = "none"
           /\ add_capture_interface(id, zone, ok)
    \/ \E id \in {<<"1">>, <<"7">>}, vlan \in {<<"100">>, <<"200">>},
          nodes \in LET n1 == [nodeid |-> 1, address |-> 42, network_value |-> 4]
                        n2 == [nodeid |-> 2, address |-> 43, network_value |-> 4]
                    IN {<<>>, <<n2>>, <<n1, n2>>, <<n2, n1>>},
          cvi \in {<<0, 0>>, <<41, 4>>}, ok \in BOOLEAN :
           /\ last.op = "none"
           /\ add_ipaddress_and_vlan_to_cluster(id, vlan, nodes, cvi[1], cvi[2],
                                                "none", ok)
    \/ \E self \in 1..Len(EngineData),
          original \in {<<"100">>, <<"5">>, <<"6", "-", "7">>, <<"6">>, <<"300">>},
          new \in {<<"300">>, <<"20", "-", "21">>}, ok \in BOOLEAN :
           /\ last.op \in {"none", "change_interface_id", "change_vlan_id"}
           /\ change_vlan_id(self, original, new, ok)
    \/ last.op = "none" /\ ChangeInterfaceId

SpecVlan == InitVlan /\ [][NextVlan]_vars

\* body holds every sub-interface and every VLAN child of old, in place
PreservedIn(old, body) ==
    /\ Prefix(old.interfaces, body.interfaces)
    /\ Len(old.vlanInterfaces) <= Len(body.vlanInterfaces)
    /\ \A v \in 1..Len(old.vlanInterfaces) :
          /\ body.vlanInterfaces[v].interface_id = old.vlanInterfaces[v].interface_id
          /\ Prefix(old.vlanInterfaces[v].interfaces, body.vlanInterfaces[v].interfaces)

\* C23: an add_* operation on an interface id the engine already holds
\* sends an update whose body holds every sub-interface and VLAN child the
\* interface had
C23_AddOnExistingIsUpdate ==
    [][(/\ last'.op \in {"add_capture_interface", "add_ipaddress_and_vlan_to_cluster"}
        /\ get(byEngine(EngineData), last'.id) # 0) =>
        /\ last'.request = "update"
        /\ PreservedIn(EngineData[get(byEngine(EngineData), last'.id)].data, last'.body)
    ]_vars

\* C24: after the builder calls of add_ipaddress_and_vlan_to_cluster
\* (add_cvi_to_vlan, add_ndi_to_vlan) no two VLAN children of the builder
\* share a compound interface_id
C24_VlanIdsUnique ==
    last.op = "add_ipaddress_and_vlan_to_cluster" =>
        \A v, w \in 1..Len(last.body.vlanInterfaces) :
            v # w => last.body.vlanInterfaces[v].interface_id
                         # last.body.vlanInterfaces[w].interface_id

\* the nodeid each node address of NextVlan is passed in with
NodeidPassed(address) == IF address = 42 THEN 1 ELSE 2

\* C30: each node interface add_ipaddress_and_vlan_to_cluster puts into the
\* VLAN for an entry of nodes carries the nodeid of that entry
C30_VlanNodeidsAsPassed ==
    last.op = "add_ipaddress_and_vlan_to_cluster" =>
        \A v \in 1..Len(last.body.vlanInterfaces) :
            \A k \in 1..Len(last.body.vlanInterfaces[v].interfaces) :
                LET sub == last.body.vlanInterfaces[v].interfaces[k]
                IN sub.address \in {42, 43} => sub.nodeid = NodeidPassed(sub.address)

\* the nicid change_vlan_id(original, new) gives an inline sub-interface:
\* the two interface ids it had, each with its new VLAN id
RevlannedInline(sub, new) ==
    LET sides == Split(sub.nicid, "-")
        new_vlan == Split(new, "-")
    IN DotFormat(Split(sides[1], ".")[1], new_vlan[1]) \o <<"-">>
       \o DotFormat(Split(LastOf(sides), ".")[1], LastOf(new_vlan))

\* the statement of C26 about one call, with Rewritten(vlan, sub) telling
\* which sub-interfaces of a renamed VLAN child get the new nicid
VlanIdChanged(old, body, original, new, Rewritten(_, _)) ==
    LET new_ifid == DotFormat(old.interface_id, Split(new, "-")[1])
    IN /\ Len(body.vlanInterfaces) = Len(old.vlanInterfaces)
       /\ \A v \in 1..Len(old.vlanInterfaces) :
             LET was == old.vlanInterfaces[v]
                 now == body.vlanInterfaces[v]
             IN IF vlan_id(was) # original THEN now = was
                ELSE /\ now.interface_id = new_ifid
                     /\ Len(now.interfaces) = Len(was.interfaces)
                     /\ \A k \in 1..Len(was.interfaces) :
                           now.interfaces[k] =
                               IF ~Rewritten(was, was.interfaces[k])
                               THEN was.interfaces[k]
                               ELSE [was.interfaces[k] EXCEPT !.nicid =
                                        IF IsInline(was.interfaces[k])
                                        THEN RevlannedInline(was.interfaces[k], new)
                                        ELSE new_ifid]

====
